---- MODULE Spec2Model ----
(***************************************************************************)
(* Model of the quota-aware request controller of pollux-chat: the Quota   *)
(* Store, the Quota Error Parser, the Model Selector, the Retry Scheduler  *)
(* and the Send Controller of the React component App (App.tsx), together  *)
(* with the Dexie persistence functions it calls (lib/db.ts).              *)
(*                                                                         *)
(* React state is modelled as the committed state; an async handler is a   *)
(* process whose steps are the code between two awaits.  A handler sees    *)
(* the state captured by the render that created it (its closure), so the  *)
(* values a send or the retry interval reads are stored with it.           *)
(***************************************************************************)
EXTENDS Integers, Sequences, FiniteSets, TLC

VARIABLES now, apiKey, chats, nextChatId, dbMessages, nextMsgId,
          currentChatId, messages, isLoading, streamingText, selectedModel,
          quotaStore, errorBanner, retryAt, autoRetryMessage,
          abortControllerRef, eff, sends, nextSend, fallback, call,
          wakeAt

vars == <<now, apiKey, chats, nextChatId, dbMessages, nextMsgId,
          currentChatId, messages, isLoading, streamingText, selectedModel,
          quotaStore, errorBanner, retryAt, autoRetryMessage,
          abortControllerRef, eff, sends, nextSend, fallback, call,
          wakeAt>>

---------------------------------------------------------------------------
(* Bounds of the model *)

MaxSends == 2          \* accepted sendMessage invocations (SpecRetry)
TurnSends == 1         \* accepted sendMessage invocations (Spec)
InitChats == 2         \* chats stored when the app starts (Spec)
NewChats == 1          \* chats created while the app runs
MaxTicks == 2          \* clock advances
MaxIncrements == 2     \* text frames one response stream carries
MaxChunkFrames == 2    \* frames one read delivers
DayTicks == 2          \* length of the UTC day, in clock advances
StartMs == 500         \* Date.now() when the component mounts

(* Program constants *)

TickMs == 500          \* poll period of the retry interval
MsPerSecond == 1000    \* retryDelay seconds to milliseconds

DayMs == DayTicks * TickMs
MaxTime == StartMs + MaxTicks * TickMs

---------------------------------------------------------------------------
(* Optional values: null is the empty tuple, a value v is <<v>> *)

None == <<>>
Some(v) == <<v>>
Val(o) == o[1]
\* a ?? b
Coalesce(a, b) == IF a # None THEN a ELSE b
\* JavaScript truthiness of number | null
Truthy(o) == o # None /\ Val(o) # 0

NoChat == 0            \* currentChatId === null
NoModel == ""          \* selectedModel === ''

\* the model identifiers the quota store can hold a record for
ModelIds == {"m1", "m2", "m3"}

\* models, in display order, as loadModels set it
models == <<"m1", "m2">>

---------------------------------------------------------------------------
(* Text, as a sequence of characters *)

RECURSIVE TrimLeft(_)
TrimLeft(s) == IF s # <<>> /\ Head(s) = " " THEN TrimLeft(Tail(s)) ELSE s

RECURSIVE TrimRight(_)
TrimRight(s) ==
  IF s # <<>> /\ s[Len(s)] = " " THEN TrimRight(SubSeq(s, 1, Len(s) - 1)) ELSE s

\* String.prototype.trim
Trim(s) == TrimRight(TrimLeft(s))

\* what the user can submit: text and attached images
Payloads ==
  { [text |-> <<" ", "a">>, images |-> <<"i">>],
    [text |-> <<" ">>, images |-> <<>>] }

---------------------------------------------------------------------------
(* Quota Store *)

getNextUtcMidnight(t) == ((t \div DayMs) + 1) * DayMs

\* a variant that stamps lastUpdated on every record that has a reset time
normalizeQuotaStamps(quota, t) ==
  IF ~Truthy(quota.resetAt) THEN quota
  ELSE IF t >= Val(quota.resetAt)
       THEN [quota EXCEPT !.used = Some(0),
                          !.remaining = quota.limit,
                          !.resetAt = IF quota.limit = None THEN None
                                      ELSE Some(getNextUtcMidnight(t)),
                          !.lastUpdated = t]
       ELSE [quota EXCEPT !.lastUpdated = t]

\* a variant that forgets the limit when the window rolls over
normalizeQuotaForgets(quota, t) ==
  IF ~Truthy(quota.resetAt) THEN quota
  ELSE IF t >= Val(quota.resetAt)
       THEN [quota EXCEPT !.limit = None, !.used = Some(0),
                          !.remaining = None, !.resetAt = None,
                          !.lastUpdated = t]
       ELSE quota

\* a variant that rolls the window over without refilling remaining
normalizeQuotaStale(quota, t) ==
  IF ~Truthy(quota.resetAt) THEN quota
  ELSE IF t >= Val(quota.resetAt)
       THEN [quota EXCEPT !.used = Some(0),
                          !.resetAt = IF quota.limit = None THEN None
                                      ELSE Some(getNextUtcMidnight(t)),
                          !.lastUpdated = t]
       ELSE quota

normalizeQuota(quota, t) ==
  IF ~Truthy(quota.resetAt) THEN quota
  ELSE IF t >= Val(quota.resetAt)
       THEN [quota EXCEPT !.used = Some(0),
                          !.remaining = quota.limit,
                          !.resetAt = IF quota.limit = None THEN None
                                      ELSE Some(getNextUtcMidnight(t)),
                          !.lastUpdated = t]
       ELSE quota

\* a blank record stands for existing === undefined
BlankQuota == [limit |-> None, used |-> None, remaining |-> None, resetAt |-> None]

updateQuota(store, modelValue, update, t) ==
  LET existing == IF store[modelValue] = None THEN BlankQuota
                  ELSE Val(store[modelValue])
      next == normalizeQuota(
                [limit |-> Coalesce(update.limit, existing.limit),
                 used |-> Coalesce(update.used, existing.used),
                 remaining |-> Coalesce(update.remaining, existing.remaining),
                 resetAt |-> Coalesce(update.resetAt, existing.resetAt),
                 lastUpdated |-> t], t)
  IN [store EXCEPT ![modelValue] = Some(next)]

\* undefined is None
getQuota(store, modelValue, t) ==
  IF store[modelValue] = None THEN None
  ELSE Some(normalizeQuota(Val(store[modelValue]), t))

EmptyStore == [m \in ModelIds |-> None]

---------------------------------------------------------------------------
(* Quota Error Parser.  An error text is described by the patterns it      *)
(* contains: the digits after "limit: ", in "quotaValue":"..." and in      *)
(* retryDelay ...s, and whether PerDay and PerMinute occur in it.          *)

ErrText(l, q, r, d, m, e) ==
  [limit |-> l, quotaValue |-> q, retryDelay |-> r, perDay |-> d,
   perMinute |-> m, empty |-> e]

TxtDisabled == ErrText(Some(0), None, None, TRUE, FALSE, FALSE)
TxtExhausted == ErrText(Some(2), Some(2), Some(1), TRUE, FALSE, FALSE)
TxtTransient == ErrText(Some(2), Some(1), Some(1), FALSE, TRUE, FALSE)
TxtRetryOnly == ErrText(None, None, Some(2), FALSE, FALSE, FALSE)
TxtUnrelated == ErrText(None, None, None, FALSE, FALSE, FALSE)
TxtEmpty == ErrText(None, None, None, FALSE, FALSE, TRUE)

ErrorTexts == {TxtDisabled, TxtExhausted, TxtTransient, TxtUnrelated}

\* a variant that reports every model as available
parseQuotaErrorAvailable(errorText, t) ==
  LET limitMatch == errorText.limit
      used == errorText.quotaValue
      retrySeconds == errorText.retryDelay
  IN [limit |-> limitMatch,
      used |-> used,
      remaining |-> IF limitMatch # None /\ used # None
                    THEN Some(Val(limitMatch) - Val(used)) ELSE None,
      retryAfter |-> IF Truthy(retrySeconds)
                     THEN Some(t + Val(retrySeconds) * MsPerSecond) ELSE None,
      period |-> IF errorText.perDay THEN "day"
                 ELSE IF errorText.perMinute THEN "minute" ELSE "unknown",
      available |-> TRUE]

parseQuotaError(errorText, t) ==
  LET limitMatch == errorText.limit
      used == errorText.quotaValue
      retrySeconds == errorText.retryDelay
  IN [limit |-> limitMatch,
      used |-> used,
      remaining |-> IF limitMatch # None /\ used # None
                    THEN Some(Val(limitMatch) - Val(used)) ELSE None,
      retryAfter |-> IF Truthy(retrySeconds)
                     THEN Some(t + Val(retrySeconds) * MsPerSecond) ELSE None,
      period |-> IF errorText.perDay THEN "day"
                 ELSE IF errorText.perMinute THEN "minute" ELSE "unknown",
      available |-> limitMatch # Some(0)]

---------------------------------------------------------------------------
(* Model Selector *)

\* models.find(...) of selectFallbackModel, scanning from index i.  Reading
\* quota.remaining of a model without a stored record raises a TypeError.
RECURSIVE findFallback(_, _, _, _, _)
findFallback(ms, i, current, store, t) ==
  IF i > Len(ms) THEN [kind |-> "none", model |-> NoModel]
  ELSE LET quota == getQuota(store, ms[i], t) IN
       IF ms[i] = current THEN findFallback(ms, i + 1, current, store, t)
       ELSE IF quota # None /\ Val(quota).limit = Some(0)
            THEN findFallback(ms, i + 1, current, store, t)
       ELSE IF quota = None THEN [kind |-> "throws", model |-> NoModel]
       ELSE IF Val(quota).remaining # None /\ Val(Val(quota).remaining) <= 0
            THEN findFallback(ms, i + 1, current, store, t)
       ELSE [kind |-> "found", model |-> ms[i]]

selectFallbackModel(ms, current, store, t) == findFallback(ms, 1, current, store, t)

---------------------------------------------------------------------------
(* handleQuotaError.  st holds the state it writes: quotaStore,            *)
(* errorBanner, selectedModel, retryAt, autoRetryMessage; cCur and cStore  *)
(* are currentChatId and quotaStore as captured by the calling closure.    *)
(* The result adds threw (selectFallbackModel raised) and armed.           *)

applyFallback(st, ms, current, cStore, t) ==
  LET fb == selectFallbackModel(ms, current, cStore, t) IN
  IF fb.kind = "throws" THEN [st EXCEPT !.threw = TRUE]
  ELSE IF fb.kind = "found"
       THEN [st EXCEPT !.selectedModel = fb.model, !.errorBanner = "switched"]
       ELSE st

\* the update handleQuotaError passes to updateQuota
quotaUpdate(quotaInfo, t) ==
  [limit |-> quotaInfo.limit,
   used |-> quotaInfo.used,
   remaining |-> quotaInfo.remaining,
   resetAt |-> IF quotaInfo.period = "day"
               THEN Some(getNextUtcMidnight(t)) ELSE None]

\* a variant that tests retryAfter before remaining
handleQuotaErrorRetryFirst(st, errorText, modelValue, retryPayload, cCur, cStore, t) ==
  LET quotaInfo == parseQuotaError(errorText, t)
      st1 == IF quotaInfo.limit # None \/ quotaInfo.used # None
             THEN [st EXCEPT !.quotaStore =
                     updateQuota(st.quotaStore, modelValue,
                                 quotaUpdate(quotaInfo, t), t)]
             ELSE st
  IN IF quotaInfo.limit = Some(0)
     THEN applyFallback([st1 EXCEPT !.errorBanner = "unavailable"],
                        models, modelValue, cStore, t)
     ELSE IF Truthy(quotaInfo.retryAfter)
     THEN [st1 EXCEPT
             !.retryAt = quotaInfo.retryAfter,
             !.autoRetryMessage =
                IF cCur # NoChat
                THEN Some([chatId |-> cCur, text |-> retryPayload.text,
                           images |-> retryPayload.images, model |-> modelValue,
                           origin |-> retryPayload.origin])
                ELSE st1.autoRetryMessage,
             !.errorBanner = "countdown",
             !.armed = TRUE]
     ELSE IF quotaInfo.remaining = Some(0)
     THEN applyFallback([st1 EXCEPT !.errorBanner = "exhausted"],
                        models, modelValue, cStore, t)
     ELSE IF ~errorText.empty
     THEN [st1 EXCEPT !.errorBanner = "generic"]
     ELSE st1

handleQuotaError(st, errorText, modelValue, retryPayload, cCur, cStore, t) ==
  LET quotaInfo == parseQuotaError(errorText, t)
      st1 == IF quotaInfo.limit # None \/ quotaInfo.used # None
             THEN [st EXCEPT !.quotaStore =
                     updateQuota(st.quotaStore, modelValue,
                                 quotaUpdate(quotaInfo, t), t)]
             ELSE st
  IN IF quotaInfo.limit = Some(0)
     THEN applyFallback([st1 EXCEPT !.errorBanner = "unavailable"],
                        models, modelValue, cStore, t)
     ELSE IF quotaInfo.remaining = Some(0)
     THEN applyFallback([st1 EXCEPT !.errorBanner = "exhausted"],
                        models, modelValue, cStore, t)
     ELSE IF Truthy(quotaInfo.retryAfter)
     THEN [st1 EXCEPT
             !.retryAt = quotaInfo.retryAfter,
             !.autoRetryMessage =
                IF cCur # NoChat
                THEN Some([chatId |-> cCur, text |-> retryPayload.text,
                           images |-> retryPayload.images, model |-> modelValue,
                           origin |-> retryPayload.origin])
                ELSE st1.autoRetryMessage,
             !.errorBanner = "countdown",
             !.armed = TRUE]
     ELSE IF ~errorText.empty
     THEN [st1 EXCEPT !.errorBanner = "generic"]
     ELSE st1

\* the state handleQuotaError starts from
QuotaState ==
  [quotaStore |-> quotaStore, errorBanner |-> errorBanner,
   selectedModel |-> selectedModel, retryAt |-> retryAt,
   autoRetryMessage |-> autoRetryMessage, threw |-> FALSE, armed |-> FALSE]

---------------------------------------------------------------------------
(* Persistence (lib/db.ts).  dbMessages is the messages table in timestamp *)
(* order.  kind and turn are history fields: the code path that wrote the  *)
(* message and the user turn it was written for.                           *)

getChatMessages(db, chatId) == SelectSeq(db, LAMBDA m : m.chatId = chatId)

Ids(ms) == [i \in 1..Len(ms) |-> ms[i].id]

\* a variant that resolves without writing the row
addMessageUnsaved(db, id, chatId, role, content, images, kind, turn) == db

addMessage(db, id, chatId, role, content, images, kind, turn) ==
  Append(db, [id |-> id, chatId |-> chatId, role |-> role, content |-> content,
              images |-> images, kind |-> kind, turn |-> turn])

deleteChatMessages(db, chatId) == SelectSeq(db, LAMBDA m : m.chatId # chatId)

Range(f) == {f[i] : i \in DOMAIN f}

\* getAllChats after updateChat(chatId): most recently updated first
MoveFront(cs, c) ==
  IF c \in Range(cs) THEN <<c>> \o SelectSeq(cs, LAMBDA x : x # c) ELSE cs

---------------------------------------------------------------------------
(* Sends: one record per accepted sendMessage invocation *)

SendIds == 1..MaxSends

FreeSend ==
  [pc |-> "free", chatId |-> NoChat, text |-> <<>>, images |-> <<>>,
   model |-> NoModel, origin |-> 0, retry |-> FALSE,
   cCur |-> NoChat, cStore |-> EmptyStore,
   userMsg |-> 0, fullText |-> <<>>, sentN |-> 0, aborted |-> FALSE,
   req |-> None, err |-> "", out |-> ""]

Active(s) == sends[s].pc \notin {"free", "done"}

\* the values a handler created by the current render reads
Closure ==
  [isLoading |-> isLoading, apiKey |-> apiKey, selectedModel |-> selectedModel,
   currentChatId |-> currentChatId, quotaStore |-> quotaStore]

\* a variant that tests neither the text and images nor the API key
AcceptsAny(cl, text, attachedImages, modelOverride) ==
  /\ ~cl.isLoading
  /\ ~(modelOverride = NoModel /\ cl.selectedModel = NoModel)

\* the precondition of sendMessage (its two early returns)
Accepts(cl, text, attachedImages, modelOverride) ==
  /\ ~((Trim(text) = <<>> /\ attachedImages = <<>>) \/ cl.isLoading \/ ~cl.apiKey)
  /\ ~(modelOverride = NoModel /\ cl.selectedModel = NoModel)

NewSend(cl, text, attachedImages, modelOverride, origin, retry) ==
  [FreeSend EXCEPT
     !.pc = IF cl.currentChatId = NoChat THEN "create" ELSE "persist",
     !.chatId = cl.currentChatId,
     !.text = text, !.images = attachedImages,
     !.model = IF modelOverride # NoModel THEN modelOverride ELSE cl.selectedModel,
     !.origin = origin, !.retry = retry,
     !.cCur = cl.currentChatId, !.cStore = cl.quotaStore]

\* sendMessage up to its first await; origin 0 starts a new turn
sendMessage(cl, text, attachedImages, modelOverride, origin, retry) ==
  IF Accepts(cl, text, attachedImages, modelOverride)
  THEN /\ sends' = [sends EXCEPT ![nextSend] =
                      NewSend(cl, text, attachedImages, modelOverride,
                              IF origin = 0 THEN nextSend ELSE origin, retry)]
       /\ nextSend' = nextSend + 1
  ELSE UNCHANGED <<sends, nextSend>>

\* the retry effect: its interval exists while both parts of the intent are
\* set, and is re-created (capturing the state of that render) whenever
\* retryAt, autoRetryMessage or currentChatId changes
EffRefresh(rearmed) ==
  eff' = IF Truthy(retryAt') /\ autoRetryMessage' # None
         THEN IF \/ rearmed \/ eff = None
                 \/ retryAt' # retryAt
                 \/ autoRetryMessage' # autoRetryMessage
                 \/ currentChatId' # currentChatId
              THEN Some([isLoading |-> isLoading', apiKey |-> apiKey',
                         selectedModel |-> selectedModel',
                         currentChatId |-> currentChatId',
                         quotaStore |-> quotaStore'])
              ELSE eff
         ELSE None

\* the finally block of sendMessage
Finally(s, out) ==
  /\ isLoading' = FALSE
  /\ streamingText' = <<>>
  /\ abortControllerRef' = 0
  /\ sends' = [sends EXCEPT ![s] =
                  [FreeSend EXCEPT !.pc = "done", !.out = out,
                                   !.chatId = sends[s].chatId,
                                   !.origin = sends[s].origin,
                                   !.retry = sends[s].retry,
                                   !.userMsg = sends[s].userMsg]]

---------------------------------------------------------------------------
(* Response stream.  A read delivers a chunk: a sequence of frames, each a *)
(* "data: " line.  The k-th text frame of the stream of send s carries the *)
(* increment Increment(s, k), or a blank if it is a "space" frame.  A text *)
(* frame whose bytes are divided between two reads arrives as a "head"     *)
(* (the line up to the end of the first chunk) and a "tail" (the rest, at  *)
(* the start of the next chunk).                                           *)

Increment(s, k) == ToString(s) \o "." \o ToString(k)

\* the send whose stream produced the first non-blank increment of text
StreamOf(text) ==
  CHOOSE s \in 1..MaxSends :
    \E k \in 1..MaxIncrements : Increment(s, k) = Trim(text)[1]

StreamErrorTexts == {TxtTransient}

Frames ==
  {[k |-> x, txt |-> TxtEmpty] : x \in {"text", "done", "err", "bad"}}
    \cup {[k |-> "errq", txt |-> t] : t \in StreamErrorTexts}

Chunks == UNION {[1..n -> Frames] : n \in 1..MaxChunkFrames}

TextCount(chunk) ==
  Cardinality({i \in DOMAIN chunk : chunk[i].k \in {"text", "space", "head"}})

\* the for loop over the lines of one chunk; acc is fullText, the number n
\* of text frames the lines seen so far began, whether setStreamingText was called, and the state
\* handleQuotaError writes.  Everything thrown inside the loop body is
\* caught by its catch block and ignored.
RECURSIVE processFrames(_, _, _, _, _)
processFrames(chunk, i, acc, id, t) ==
  IF i > Len(chunk) THEN acc
  ELSE IF chunk[i].k = "done" THEN acc
  ELSE IF chunk[i].k \in {"text", "space"}
       THEN processFrames(chunk, i + 1,
              [acc EXCEPT !.fullText =
                             Append(@, IF chunk[i].k = "text"
                                       THEN Increment(id, acc.n + 1) ELSE " "),
                          !.n = @ + 1, !.wrote = TRUE], id, t)
  ELSE IF chunk[i].k = "head"
       THEN processFrames(chunk, i + 1, [acc EXCEPT !.n = @ + 1], id, t)
  ELSE IF chunk[i].k = "errq"
       THEN processFrames(chunk, i + 1,
              [acc EXCEPT !.st =
                 [handleQuotaError(acc.st, chunk[i].txt, sends[id].model,
                    [text |-> Trim(sends[id].text), images |-> sends[id].images,
                     origin |-> sends[id].origin],
                    sends[id].cCur, sends[id].cStore, t)
                  EXCEPT !.threw = FALSE]], id, t)
  ELSE processFrames(chunk, i + 1, acc, id, t)

---------------------------------------------------------------------------
\* the state of the component with n stored chats, all empty (loadChats
\* selects the first one), whether it holds an API key, and the selected
\* model
InitState(n, key, model) ==
  /\ now = StartMs
  /\ apiKey = key
  /\ chats = [i \in 1..n |-> i]
  /\ nextChatId = n + 1
  /\ dbMessages = <<>>
  /\ nextMsgId = 1
  /\ currentChatId = IF n = 0 THEN NoChat ELSE 1
  /\ messages = <<>>
  /\ isLoading = FALSE
  /\ streamingText = <<>>
  /\ selectedModel = model
  /\ errorBanner = ""
  /\ retryAt = None
  /\ autoRetryMessage = None
  /\ abortControllerRef = 0
  /\ eff = None
  /\ sends = [s \in SendIds |-> FreeSend]
  /\ nextSend = 1
  /\ fallback = None
  /\ call = None
  /\ wakeAt = Some(getNextUtcMidnight(StartMs))

\* the state after mount, signed in: loadModels selects the first model
InitApp(n) == InitState(n, TRUE, models[1])

\* ... and nothing in the stored quota blob
InitWith(n) == InitApp(n) /\ quotaStore = EmptyStore

dbVars == <<chats, nextChatId, dbMessages, nextMsgId>>
\* the midnight timer and the records of calls made on their own
restVars == <<fallback, call, wakeAt>>
quotaVars == <<quotaStore, errorBanner, selectedModel, retryAt, autoRetryMessage>>

\* handleSend: the user submits the input box
HandleSend(p) ==
  /\ sendMessage(Closure, Trim(p.text), p.images, NoModel, 0, FALSE)
  /\ UNCHANGED <<restVars, now, apiKey, dbVars, currentChatId, messages, isLoading,
                 streamingText, quotaVars, abortControllerRef, eff>>

\* sendMessage after createChat resolved
SendCreate(s) ==
  /\ sends[s].pc = "create"
  /\ chats' = <<nextChatId>> \o chats
  /\ nextChatId' = nextChatId + 1
  /\ currentChatId' = nextChatId
  /\ sends' = [sends EXCEPT ![s].pc = "persist", ![s].chatId = nextChatId]
  /\ UNCHANGED <<restVars, now, apiKey, dbMessages, nextMsgId, messages, isLoading,
                 streamingText, quotaVars, abortControllerRef, nextSend>>
  /\ EffRefresh(FALSE)

\* sendMessage after addMessage(user) resolved, up to await getChat;
\* loadChats() and the selectChat it makes are taken with it
SendPersist(s) ==
  /\ sends[s].pc = "persist"
  /\ LET db2 == addMessage(dbMessages, nextMsgId, sends[s].chatId, "user",
                           Trim(sends[s].text), sends[s].images, "user",
                           sends[s].origin)
         cs2 == MoveFront(chats, sends[s].chatId)
     IN /\ dbMessages' = db2
        /\ chats' = cs2
        /\ IF sends[s].cCur = NoChat /\ cs2 # <<>>
           THEN /\ currentChatId' = Head(cs2)
                /\ messages' = Ids(getChatMessages(db2, Head(cs2)))
           ELSE /\ currentChatId' = currentChatId
                /\ messages' = Append(messages, nextMsgId)
  /\ nextMsgId' = nextMsgId + 1
  /\ isLoading' = TRUE
  /\ streamingText' = <<>>
  /\ errorBanner' = ""
  /\ abortControllerRef' = s
  /\ sends' = [sends EXCEPT ![s].pc = "transmit", ![s].userMsg = nextMsgId]
  /\ UNCHANGED <<restVars, now, apiKey, nextChatId, selectedModel, quotaStore, retryAt,
                 autoRetryMessage, nextSend>>
  /\ EffRefresh(FALSE)

\* getChat, getChatMessages and fetch; an aborted signal rejects the fetch
SendTransmit(s) ==
  /\ sends[s].pc = "transmit"
  /\ IF sends[s].aborted
     THEN Finally(s, "aborted")
     ELSE /\ sends' = [sends EXCEPT
                 ![s].pc = "waiting",
                 ![s].req = Some([model |-> sends[s].model,
                                  messages |-> Ids(getChatMessages(dbMessages, sends[s].chatId)),
                                  newMessage |-> [text |-> Trim(sends[s].text),
                                                  images |-> sends[s].images]])]
          /\ UNCHANGED <<isLoading, streamingText, abortControllerRef>>
  /\ UNCHANGED <<restVars, now, apiKey, dbVars, currentChatId, messages, quotaVars,
                 nextSend, eff>>

\* fetch rejects or reader.read rejects (network), or the response is
\* non-2xx with a status other than 429 (http): control reaches the catch
\* block, which awaits addMessage
RespFail(s, kind) ==
  /\ ~sends[s].aborted
  /\ \/ sends[s].pc = "waiting"
     \/ sends[s].pc = "reading" /\ kind = "network"
  /\ sends' = [sends EXCEPT ![s].pc = "saveError", ![s].err = kind]
  /\ UNCHANGED <<restVars, now, apiKey, dbVars, currentChatId, messages, isLoading,
                 streamingText, quotaVars, abortControllerRef, nextSend, eff>>

\* the response has status 429 and body txt
Resp429(s, txt) ==
  /\ sends[s].pc = "waiting"
  /\ ~sends[s].aborted
  /\ LET h == handleQuotaError(QuotaState, txt, sends[s].model,
                 [text |-> Trim(sends[s].text), images |-> sends[s].images,
                  origin |-> sends[s].origin],
                 sends[s].cCur, sends[s].cStore, now)
     IN /\ quotaStore' = h.quotaStore
        /\ errorBanner' = h.errorBanner
        /\ selectedModel' = h.selectedModel
        /\ retryAt' = h.retryAt
        /\ autoRetryMessage' = h.autoRetryMessage
        /\ IF h.threw
           THEN /\ sends' = [sends EXCEPT ![s].pc = "saveError",
                                          ![s].err = "TypeError"]
                /\ UNCHANGED <<isLoading, streamingText, abortControllerRef>>
           ELSE Finally(s, "quota")
        /\ UNCHANGED <<restVars, now, apiKey, dbVars, currentChatId, messages, nextSend>>
        /\ EffRefresh(h.armed)

\* the response is 2xx: the read loop starts
RespOk(s) ==
  /\ sends[s].pc = "waiting"
  /\ ~sends[s].aborted
  /\ sends' = [sends EXCEPT ![s].pc = "reading"]
  /\ UNCHANGED <<restVars, now, apiKey, dbVars, currentChatId, messages, isLoading,
                 streamingText, quotaVars, abortControllerRef, nextSend, eff>>

\* reader.read() resolves with a chunk
readChunk(s, chunk) ==
  /\ sends[s].pc = "reading"
  /\ ~sends[s].aborted
  /\ LET acc == processFrames(chunk, 1,
                  [fullText |-> sends[s].fullText, n |-> sends[s].sentN,
                   wrote |-> FALSE, st |-> QuotaState], s, now)
     IN /\ sends' = [sends EXCEPT ![s].fullText = acc.fullText,
                                  ![s].sentN = @ + TextCount(chunk)]
        /\ streamingText' = IF acc.wrote THEN acc.fullText ELSE streamingText
        /\ quotaStore' = acc.st.quotaStore
        /\ errorBanner' = acc.st.errorBanner
        /\ selectedModel' = acc.st.selectedModel
        /\ retryAt' = acc.st.retryAt
        /\ autoRetryMessage' = acc.st.autoRetryMessage
        /\ UNCHANGED <<now, apiKey, dbVars, currentChatId, messages, isLoading,
                       abortControllerRef, nextSend>>
        /\ EffRefresh(acc.st.armed)

SendRead(s, chunk) == readChunk(s, chunk) /\ UNCHANGED restVars

\* reader.read() resolves with done
SendEnd(s) ==
  /\ sends[s].pc = "reading"
  /\ ~sends[s].aborted
  /\ IF sends[s].fullText # <<>>
     THEN /\ sends' = [sends EXCEPT ![s].pc = "saveReply"]
          /\ UNCHANGED <<isLoading, streamingText, abortControllerRef>>
     ELSE Finally(s, "settled")
  /\ UNCHANGED <<restVars, now, apiKey, dbVars, currentChatId, messages, quotaVars,
                 nextSend, eff>>

\* the pending fetch or read rejects with AbortError
SendAborted(s) ==
  /\ sends[s].pc \in {"waiting", "reading"}
  /\ sends[s].aborted
  /\ Finally(s, "aborted")
  /\ UNCHANGED <<restVars, now, apiKey, dbVars, currentChatId, messages, quotaVars,
                 nextSend, eff>>

\* addMessage(model, fullText) resolved
SendSaveReply(s) ==
  /\ sends[s].pc = "saveReply"
  /\ dbMessages' = addMessage(dbMessages, nextMsgId, sends[s].chatId, "model",
                              sends[s].fullText, <<>>, "reply", sends[s].origin)
  /\ nextMsgId' = nextMsgId + 1
  /\ messages' = Append(messages, nextMsgId)
  /\ Finally(s, "settled")
  /\ UNCHANGED <<restVars, now, apiKey, chats, nextChatId, currentChatId, quotaVars,
                 nextSend, eff>>

\* a variant whose catch block treats every error as it treats AbortError
SendSaveErrorSilent(s) ==
  /\ sends[s].pc = "saveError"
  /\ Finally(s, "failed")
  /\ UNCHANGED <<restVars, now, apiKey, dbVars, currentChatId, messages,
                 quotaVars, nextSend, eff>>

\* addMessage(model, error text) resolved, in the catch block
SendSaveError(s) ==
  /\ sends[s].pc = "saveError"
  /\ dbMessages' = addMessage(dbMessages, nextMsgId, sends[s].chatId, "model",
                              <<"Error", sends[s].err>>, <<>>, "error",
                              sends[s].origin)
  /\ nextMsgId' = nextMsgId + 1
  /\ messages' = Append(messages, nextMsgId)
  /\ Finally(s, "failed")
  /\ UNCHANGED <<restVars, now, apiKey, chats, nextChatId, currentChatId, quotaVars,
                 nextSend, eff>>

\* handleStop: the stop button, shown while isLoading
HandleStop ==
  /\ isLoading
  /\ sends' = IF abortControllerRef # 0
              THEN [sends EXCEPT ![abortControllerRef].aborted = TRUE]
              ELSE sends
  /\ isLoading' = FALSE
  /\ IF Trim(streamingText) # <<>> /\ currentChatId # NoChat
     THEN /\ dbMessages' = addMessage(dbMessages, nextMsgId, currentChatId,
                             "model", streamingText, <<>>, "partial",
                             sends[StreamOf(streamingText)].origin)
          /\ nextMsgId' = nextMsgId + 1
          /\ messages' = Append(messages, nextMsgId)
     ELSE UNCHANGED <<dbMessages, nextMsgId, messages>>
  /\ streamingText' = <<>>
  /\ UNCHANGED <<restVars, now, apiKey, chats, nextChatId, currentChatId, quotaVars,
                 abortControllerRef, nextSend, eff>>

\* a variant that retries on the model selected now, not the intent's
RetryFireSelected ==
  /\ eff # None
  /\ now >= Val(retryAt)
  /\ Val(autoRetryMessage).chatId = currentChatId
  /\ retryAt' = None
  /\ autoRetryMessage' = None
  /\ LET payload == Val(autoRetryMessage) IN
       sendMessage([Val(eff) EXCEPT !.selectedModel = selectedModel],
                   payload.text, payload.images, NoModel, payload.origin, TRUE)
  /\ UNCHANGED <<restVars, now, apiKey, dbVars, currentChatId, messages,
                 isLoading, streamingText, selectedModel, quotaStore,
                 errorBanner, abortControllerRef>>
  /\ EffRefresh(FALSE)

\* the retry interval fires after the deadline; the intent's chat is active
RetryFire ==
  /\ eff # None
  /\ now >= Val(retryAt)
  /\ Val(autoRetryMessage).chatId = currentChatId
  /\ retryAt' = None
  /\ autoRetryMessage' = None
  /\ LET payload == Val(autoRetryMessage) IN
       sendMessage(Val(eff), payload.text, payload.images, payload.model,
                   payload.origin, TRUE)
  /\ UNCHANGED <<restVars, now, apiKey, dbVars, currentChatId, messages, isLoading,
                 streamingText, selectedModel, quotaStore, errorBanner,
                 abortControllerRef>>
  /\ EffRefresh(FALSE)

\* a variant without the chat check, as the interval of the earlier
\* App.tsx: it retries whatever chat is active
RetryAnyChat ==
  /\ eff # None
  /\ now >= Val(retryAt)
  /\ Val(autoRetryMessage).chatId # currentChatId
  /\ nextSend <= MaxSends
  /\ retryAt' = None
  /\ autoRetryMessage' = None
  /\ LET payload == Val(autoRetryMessage) IN
       sendMessage(Val(eff), payload.text, payload.images, payload.model,
                   payload.origin, TRUE)
  /\ UNCHANGED <<restVars, now, apiKey, dbVars, currentChatId, messages,
                 isLoading, streamingText, selectedModel, quotaStore,
                 errorBanner, abortControllerRef>>
  /\ EffRefresh(FALSE)

\* the retry interval fires after the deadline; another chat is active
RetryDiscard ==
  /\ eff # None
  /\ now >= Val(retryAt)
  /\ Val(autoRetryMessage).chatId # currentChatId
  /\ retryAt' = None
  /\ autoRetryMessage' = None
  /\ errorBanner' = ""
  /\ UNCHANGED <<restVars, now, apiKey, dbVars, currentChatId, messages, isLoading,
                 streamingText, selectedModel, quotaStore, abortControllerRef,
                 sends, nextSend>>
  /\ EffRefresh(FALSE)

\* the retry interval fires before the deadline
RetryCountdown ==
  /\ eff # None
  /\ now < Val(retryAt)
  /\ errorBanner' = "countdown"
  /\ UNCHANGED <<restVars, now, apiKey, dbVars, currentChatId, messages, isLoading,
                 streamingText, selectedModel, quotaStore, retryAt,
                 autoRetryMessage, abortControllerRef, sends, nextSend, eff>>

\* time passes
Tick ==
  /\ now' = now + TickMs
  /\ UNCHANGED <<restVars, apiKey, dbVars, currentChatId, messages, isLoading,
                 streamingText, quotaVars, abortControllerRef, eff, sends,
                 nextSend>>

\* selectChat: the user clicks a chat of the list
selectChat(chatId) ==
  /\ chatId \in Range(chats)
  /\ currentChatId' = chatId
  /\ messages' = Ids(getChatMessages(dbMessages, chatId))
  /\ UNCHANGED <<restVars, now, apiKey, dbVars, isLoading, streamingText, quotaVars,
                 abortControllerRef, sends, nextSend>>
  /\ EffRefresh(FALSE)

\* handleDeleteChat, with deleteChat of lib/db.ts
handleDeleteChat(chatId) ==
  /\ chatId \in Range(chats)
  /\ dbMessages' = deleteChatMessages(dbMessages, chatId)
  /\ LET remaining == SelectSeq(chats, LAMBDA c : c # chatId) IN
       /\ chats' = remaining
       /\ IF currentChatId = chatId
          THEN IF remaining # <<>>
               THEN /\ currentChatId' = remaining[1]
                    /\ messages' = Ids(getChatMessages(dbMessages', remaining[1]))
               ELSE /\ currentChatId' = NoChat
                    /\ messages' = <<>>
          ELSE UNCHANGED <<currentChatId, messages>>
  /\ UNCHANGED <<restVars, now, apiKey, nextChatId, nextMsgId, isLoading, streamingText,
                 quotaVars, abortControllerRef, sends, nextSend>>
  /\ EffRefresh(FALSE)

\* the user picks a model in the dropdown
PickModel(m) ==
  /\ m # selectedModel
  /\ selectedModel' = m
  /\ UNCHANGED <<restVars, now, apiKey, dbVars, currentChatId, messages, isLoading,
                 streamingText, quotaStore, errorBanner, retryAt,
                 autoRetryMessage, abortControllerRef, eff, sends, nextSend>>

---------------------------------------------------------------------------
(* Bounds on what the environment does *)

CanSend(max) ==
  /\ nextSend <= max
  /\ currentChatId = NoChat =>
       nextChatId + Cardinality({s \in SendIds : sends[s].pc = "create"})
         <= InitChats + NewChats

CanRead(s, chunk) == sends[s].sentN + TextCount(chunk) <= MaxIncrements

CanTick == now < MaxTime

ChatIds == 1..(InitChats + NewChats)

(* Spec: one turn in full (every response, the whole stream, stop, chat    *)
(* selection and deletion), from a fresh install or with stored chats.     *)
(* The turn ends before the next UTC midnight: the midnight timer and page *)
(* reloads are the subject of SpecQuota.                                   *)

Init == InitWith(0) \/ InitWith(InitChats)

Next ==
  \/ \E p \in Payloads : CanSend(TurnSends) /\ HandleSend(p)
  \/ \E s \in SendIds : SendCreate(s)
  \/ \E s \in SendIds : SendPersist(s)
  \/ \E s \in SendIds : SendTransmit(s)
  \/ \E s \in SendIds, kind \in {"network", "http"} : RespFail(s, kind)
  \/ \E s \in SendIds, txt \in ErrorTexts : Resp429(s, txt)
  \/ \E s \in SendIds : RespOk(s)
  \/ \E s \in SendIds, chunk \in Chunks : CanRead(s, chunk) /\ SendRead(s, chunk)
  \/ \E s \in SendIds : SendEnd(s)
  \/ \E s \in SendIds : SendAborted(s)
  \/ \E s \in SendIds : SendSaveReply(s)
  \/ \E s \in SendIds : SendSaveError(s)
  \/ HandleStop
  \/ RetryDiscard
  \/ RetryCountdown
  \/ CanTick /\ Tick
  \/ \E c \in ChatIds : selectChat(c)
  \/ \E c \in ChatIds : handleDeleteChat(c)
  \/ \E i \in 1..Len(models) : PickModel(models[i])

Spec == Init /\ [][Next]_vars

(* SpecRetry: two sends and the retry scheduler, with the user selecting   *)
(* models and deleting the chat; responses are failures.                   *)

InitRetry == InitWith(InitChats)

NextRetry ==
  \/ \E p \in Payloads : CanSend(MaxSends) /\ HandleSend(p)
  \/ \E s \in SendIds : SendCreate(s)
  \/ \E s \in SendIds : SendPersist(s)
  \/ \E s \in SendIds : SendTransmit(s)
  \/ \E s \in SendIds : RespFail(s, "network")
  \/ \E s \in SendIds : Resp429(s, TxtTransient)
  \/ \E s \in SendIds : SendAborted(s)
  \/ \E s \in SendIds : SendSaveError(s)
  \/ HandleStop
  \/ nextSend <= MaxSends /\ RetryFire
  \/ RetryDiscard
  \/ RetryCountdown
  \/ CanTick /\ Tick
  \/ \E c \in ChatIds : selectChat(c)
  \/ \E c \in ChatIds : handleDeleteChat(c)
  \/ \E i \in 1..Len(models) : PickModel(models[i])

SpecRetry == InitRetry /\ [][NextRetry]_vars

(* SpecSel: selectFallbackModel alone, for every model list, excluded      *)
(* model and stored quota blob of the bounds.                              *)

MaxModels == 3         \* length of the model list

\* the records handleQuotaError stores for a model, and no record
StoredRecords ==
  {None} \cup
  { updateQuota(EmptyStore, "m1",
                quotaUpdate(parseQuotaError(txt, StartMs), StartMs),
                StartMs)["m1"] : txt \in {TxtDisabled, TxtExhausted, TxtTransient} }

\* model lists in display order: no identifier twice
ModelLists ==
  { ms \in UNION {[1..n -> ModelIds] : n \in 0..MaxModels} :
      \A i, j \in DOMAIN ms : ms[i] = ms[j] => i = j }

InitSel == InitApp(0) /\ quotaStore \in [ModelIds -> StoredRecords]

\* selectFallbackModel(current) with models = ms: fallback is what the call
\* was given and what models.find came to
SelectFallback(ms, current) ==
  /\ fallback = None
  /\ LET r == applyFallback(QuotaState, ms, current, quotaStore, now) IN
       /\ selectedModel' = r.selectedModel
       /\ errorBanner' = r.errorBanner
  /\ fallback' = Some([models |-> ms, current |-> current,
                       result |-> selectFallbackModel(ms, current, quotaStore, now)])
  /\ UNCHANGED <<call, wakeAt, now, apiKey, dbVars, currentChatId, messages,
                 isLoading, streamingText, quotaStore, retryAt,
                 autoRetryMessage, abortControllerRef, eff, sends, nextSend>>

NextSel ==
  \E ms \in ModelLists, current \in ModelIds \cup {NoModel} :
    SelectFallback(ms, current)

SpecSel == InitSel /\ [][NextSel]_vars

---------------------------------------------------------------------------
(* SpecHandle: handleQuotaError alone, for every error text of the bounds, *)
(* with and without an active chat, over every stored quota blob.          *)

MaxQuota == 2          \* largest number an error text carries

QuotaNumbers == {None} \cup {Some(n) : n \in 0..MaxQuota}

\* the error texts: every combination of the patterns, and the empty text
AllErrorTexts ==
  {ErrText(l, q, r, d, m, FALSE) :
     l \in QuotaNumbers, q \in QuotaNumbers, r \in QuotaNumbers,
     d \in BOOLEAN, m \in BOOLEAN}
  \cup {TxtEmpty}

InitHandle ==
  /\ InitApp(0) \/ InitApp(InitChats)
  /\ quotaStore \in [ModelIds -> StoredRecords]

\* handleQuotaError(errorText, modelValue, retryPayload) called by the
\* render of the current state; call is what it was given
HandleQuota(errorText, modelValue, retryPayload) ==
  /\ call = None
  /\ LET h == handleQuotaError(QuotaState, errorText, modelValue,
                 [text |-> retryPayload.text, images |-> retryPayload.images,
                  origin |-> 1],
                 currentChatId, quotaStore, now)
     IN /\ quotaStore' = h.quotaStore
        /\ errorBanner' = h.errorBanner
        /\ selectedModel' = h.selectedModel
        /\ retryAt' = h.retryAt
        /\ autoRetryMessage' = h.autoRetryMessage
        /\ call' = Some([errorText |-> errorText, modelValue |-> modelValue,
                         threw |-> h.threw])
        /\ UNCHANGED <<fallback, wakeAt, now, apiKey, dbVars, currentChatId,
                       messages, isLoading, streamingText, abortControllerRef,
                       sends, nextSend>>
        /\ EffRefresh(h.armed)

NextHandle ==
  \E errorText \in AllErrorTexts, i \in 1..Len(models) :
    HandleQuota(errorText, models[i], [text |-> <<"a">>, images |-> <<>>])

SpecHandle == InitHandle /\ [][NextHandle]_vars

---------------------------------------------------------------------------

(* SpecGuard: one call of sendMessage and what follows it up to the        *)
(* request, for every text, image list and model override of the bounds,   *)
(* signed in or signed out (before sign-in and after handleLogout), over   *)
(* every stored quota blob.                                                *)

MaxTextLen == 2        \* length of the text given to sendMessage

Texts == UNION {[1..n -> {" ", "a"}] : n \in 0..MaxTextLen}

InitGuard ==
  /\ \/ InitApp(0)
     \/ InitApp(InitChats)
     \/ InitState(0, FALSE, NoModel)
  /\ quotaStore \in [ModelIds -> StoredRecords]

\* what the no-op claim compares: the chats, the messages, the banner, the
\* in-flight flag, the retry intent, the Quota Store and the sends
Observed ==
  [chats |-> chats, currentChatId |-> currentChatId,
   dbMessages |-> dbMessages, messages |-> messages,
   errorBanner |-> errorBanner, isLoading |-> isLoading,
   retryAt |-> retryAt, autoRetryMessage |-> autoRetryMessage,
   quotaStore |-> quotaStore, sends |-> sends]

\* sendMessage(text, attachedImages, modelOverride) called by the render of
\* the current state; call is what it was given and the state it was
\* called in
SendCall(text, attachedImages, modelOverride) ==
  /\ call = None
  /\ sendMessage(Closure, text, attachedImages, modelOverride, 0, FALSE)
  /\ call' = Some([text |-> text, attachedImages |-> attachedImages,
                   modelOverride |-> modelOverride, apiKey |-> apiKey,
                   before |-> Observed])
  /\ UNCHANGED <<fallback, wakeAt, now, apiKey, dbVars, currentChatId, messages,
                 isLoading, streamingText, quotaVars, abortControllerRef, eff>>

NextGuard ==
  \/ \E text \in Texts, attachedImages \in {<<>>, <<"i">>},
        modelOverride \in {NoModel, models[2]} :
       SendCall(text, attachedImages, modelOverride)
  \/ \E s \in SendIds : SendCreate(s)
  \/ \E s \in SendIds : SendPersist(s)
  \/ \E s \in SendIds : SendTransmit(s)

SpecGuard == InitGuard /\ [][NextGuard]_vars

---------------------------------------------------------------------------

(* SpecNorm: normalizeQuota alone, for every record of the bounds, before, *)
(* at and after the record's reset time.                                   *)

\* reset times are UTC midnights
ResetTimes == {None} \cup {Some(k * DayMs) : k \in 1..(MaxTime \div DayMs + 1)}

QuotaInfos ==
  [limit : QuotaNumbers, used : QuotaNumbers, remaining : QuotaNumbers,
   resetAt : ResetTimes, lastUpdated : {StartMs}]

\* normalizeQuota(quota) called now; call is what it was given, when, and
\* what it returned
Normalize(quota) ==
  /\ call = None
  /\ call' = Some([quota |-> quota, at |-> now,
                   result |-> normalizeQuota(quota, now)])
  /\ UNCHANGED <<fallback, wakeAt, now, apiKey, dbVars, currentChatId, messages,
                 isLoading, streamingText, quotaVars, abortControllerRef, eff,
                 sends, nextSend>>

\* normalizeQuota(normalizeQuota(quota)) with both calls made now; again is
\* what the second call returned
NormalizeTwice(quota) ==
  /\ call = None
  /\ call' = Some([quota |-> quota, at |-> now,
                   result |-> normalizeQuota(quota, now),
                   again |-> normalizeQuota(normalizeQuota(quota, now), now)])
  /\ UNCHANGED <<fallback, wakeAt, now, apiKey, dbVars, currentChatId, messages,
                 isLoading, streamingText, quotaVars, abortControllerRef, eff,
                 sends, nextSend>>

NextNorm ==
  \/ \E quota \in QuotaInfos : Normalize(quota)
  \/ \E quota \in QuotaInfos : NormalizeTwice(quota)
  \/ call = None /\ CanTick /\ Tick

SpecNorm == InitWith(0) /\ [][NextNorm]_vars

---------------------------------------------------------------------------

(* SpecQuota: the Quota Store over time: quota failures of either model,   *)
(* the clock passing a UTC midnight, the midnight timer, and page reloads. *)

TxtExhaustedMinute == ErrText(Some(2), Some(2), None, FALSE, TRUE, FALSE)
TxtExhaustedUnknown == ErrText(Some(2), Some(2), None, FALSE, FALSE, FALSE)
TxtOverUsed == ErrText(Some(1), Some(2), None, TRUE, FALSE, FALSE)
TxtLimitOnly == ErrText(Some(1), None, None, TRUE, FALSE, FALSE)

QuotaSignals ==
  {TxtDisabled, TxtExhausted, TxtExhaustedMinute, TxtExhaustedUnknown,
   TxtOverUsed, TxtLimitOnly, TxtTransient}

loadQuotaStore(store, t) ==
  [m \in ModelIds |-> IF store[m] = None THEN None
                      ELSE Some(normalizeQuota(Val(store[m]), t))]

MaxFailures == 2       \* quota failures

\* the number of quota failures so far
Failures == IF call = None THEN 0 ELSE Val(call).n

\* a request for modelValue fails with status 429 and body errorText:
\* handleQuotaError; call is the failure, its time and its number
QuotaFailure(errorText, modelValue) ==
  /\ LET h == handleQuotaError(QuotaState, errorText, modelValue,
                 [text |-> <<"a">>, images |-> <<>>, origin |-> 1],
                 currentChatId, quotaStore, now)
     IN /\ quotaStore' = h.quotaStore
        /\ errorBanner' = h.errorBanner
        /\ selectedModel' = h.selectedModel
        /\ retryAt' = h.retryAt
        /\ autoRetryMessage' = h.autoRetryMessage
        /\ call' = Some([errorText |-> errorText, modelValue |-> modelValue,
                         at |-> now, n |-> Failures + 1])
        /\ UNCHANGED <<fallback, wakeAt, now, apiKey, dbVars, currentChatId,
                       messages, isLoading, streamingText, abortControllerRef,
                       sends, nextSend>>
        /\ EffRefresh(h.armed)

\* the timeout of the midnight effect fires: it was set at mount for
\* nextReset = wakeAt and is not set again
MidnightWake ==
  /\ wakeAt # None
  /\ now >= Val(wakeAt)
  /\ quotaStore' =
       [m \in ModelIds |->
          IF quotaStore[m] = None THEN None
          ELSE Some(normalizeQuota([Val(quotaStore[m]) EXCEPT !.resetAt = wakeAt],
                                   now))]
  /\ wakeAt' = None
  /\ UNCHANGED <<fallback, call, now, apiKey, dbVars, currentChatId, messages,
                 isLoading, streamingText, selectedModel, errorBanner, retryAt,
                 autoRetryMessage, abortControllerRef, eff, sends, nextSend>>

\* the page is reloaded: the component mounts again over what is stored
Reload ==
  /\ quotaStore' = loadQuotaStore(quotaStore, now)
  /\ wakeAt' = Some(getNextUtcMidnight(now))
  /\ currentChatId' = IF chats = <<>> THEN NoChat ELSE Head(chats)
  /\ messages' = IF chats = <<>> THEN <<>>
                 ELSE Ids(getChatMessages(dbMessages, Head(chats)))
  /\ isLoading' = FALSE
  /\ streamingText' = <<>>
  /\ selectedModel' = models[1]
  /\ errorBanner' = ""
  /\ retryAt' = None
  /\ autoRetryMessage' = None
  /\ abortControllerRef' = 0
  /\ eff' = None
  /\ sends' = [s \in SendIds |-> FreeSend]
  /\ nextSend' = 1
  /\ UNCHANGED <<fallback, call, now, apiKey, dbVars>>

NextQuota ==
  \/ \E errorText \in QuotaSignals, i \in 1..Len(models) :
       Failures < MaxFailures /\ QuotaFailure(errorText, models[i])
  \/ MidnightWake
  \/ Reload
  \/ CanTick /\ Tick

SpecQuota == InitWith(InitChats) /\ [][NextQuota]_vars

---------------------------------------------------------------------------

(* SpecUpdate: updateQuota alone, for every stored record of the bounds    *)
(* (or none), every update handleQuotaError passes, before, at and after   *)
(* the stored reset time.                                                  *)

\* the updates handleQuotaError passes to updateQuota
QuotaUpdates ==
  {quotaUpdate(parseQuotaError(errorText, StartMs), StartMs) :
     errorText \in {x \in AllErrorTexts : x.limit # None \/ x.quotaValue # None}}

\* updateQuota(modelValue, update) called now over a store that holds
\* existing for the model; call is what it was given, when, and the record it
\* stored
Update(existing, update) ==
  /\ call = None
  /\ call' = Some([existing |-> existing, update |-> update, at |-> now,
                   result |-> updateQuota([EmptyStore EXCEPT !["m1"] = existing],
                                          "m1", update, now)["m1"]])
  /\ UNCHANGED <<fallback, wakeAt, now, apiKey, dbVars, currentChatId, messages,
                 isLoading, streamingText, quotaVars, abortControllerRef, eff,
                 sends, nextSend>>

NextUpdate ==
  \/ call = None /\ \E existing \in {None} \cup {Some(q) : q \in QuotaInfos},
                       update \in QuotaUpdates : Update(existing, update)
  \/ call = None /\ CanTick /\ Tick

SpecUpdate == InitWith(0) /\ [][NextUpdate]_vars

---------------------------------------------------------------------------

(* SpecLoad: loadQuotaStore alone, over what localStorage can hold under   *)
(* the quota key: nothing, text that is not JSON, JSON without a           *)
(* modelQuotas mapping, and a mapping whose entries are stored records or  *)
(* null.                                                                   *)

\* entries is the mapping's records (None: no such key) and nulls the keys
\* whose entry is null
StoredBlobs ==
  {[k |-> kind, entries |-> EmptyStore, nulls |-> {}] :
     kind \in {"missing", "garbage", "unmapped"}}
  \cup {[k |-> "mapping", entries |-> entries, nulls |-> nulls] :
          entries \in [ModelIds -> StoredRecords], nulls \in SUBSET ModelIds}

\* a variant without the try block's protection of the entries: a null
\* entry is passed over
loadStoredSkipping(blob, t) ==
  IF blob.k # "mapping" THEN EmptyStore
  ELSE loadQuotaStore([m \in ModelIds |-> IF m \in blob.nulls THEN None
                                          ELSE blob.entries[m]], t)

\* loadQuotaStore() over the stored blob: JSON.parse of text that is not
\* JSON, and normalizeQuota of a null entry (reading null.resetAt), throw
\* inside the try block, whose catch returns the empty store
loadStored(blob, t) ==
  IF blob.k \in {"missing", "garbage", "unmapped"} THEN EmptyStore
  ELSE IF \E m \in blob.nulls : TRUE THEN EmptyStore
  ELSE loadQuotaStore(blob.entries, t)

\* loadQuotaStore() called now; call is the blob, the time and the result
Load(blob) ==
  /\ call = None
  /\ call' = Some([blob |-> blob, at |-> now, result |-> loadStored(blob, now)])
  /\ UNCHANGED <<fallback, wakeAt, now, apiKey, dbVars, currentChatId, messages,
                 isLoading, streamingText, quotaVars, abortControllerRef, eff,
                 sends, nextSend>>

NextLoad ==
  \/ call = None /\ \E blob \in StoredBlobs : Load(blob)
  \/ call = None /\ CanTick /\ Tick

SpecLoad == InitWith(0) /\ [][NextLoad]_vars

---------------------------------------------------------------------------

(* SpecStream: one turn whose response is a stream, with the chunks the    *)
(* reads delivered on record in call.  The server writes whole frames; the *)
(* transport divides the bytes into chunks anywhere, so a text frame may   *)
(* arrive as a head ending one chunk and a tail starting the next.         *)

MaxReads == 3

StreamFrames ==
  {[k |-> x, txt |-> TxtEmpty] :
     x \in {"text", "done", "err", "bad", "head", "tail"}}

StreamChunks ==
  {chunk \in UNION {[1..n -> StreamFrames] : n \in 1..MaxChunkFrames} :
     \A i \in DOMAIN chunk : /\ chunk[i].k = "head" => i = Len(chunk)
                             /\ chunk[i].k = "tail" => i = 1}

\* the chunks delivered so far
Delivered == IF call = None THEN <<>> ELSE Val(call)

\* the bytes delivered so far end inside a frame
Cut ==
  /\ Delivered # <<>>
  /\ LET last == Delivered[Len(Delivered)] IN last[Len(last)].k = "head"

StreamRead(s, chunk) ==
  /\ Len(Delivered) < MaxReads
  /\ (chunk[1].k = "tail") <=> Cut
  /\ readChunk(s, chunk)
  /\ call' = Some(Append(Delivered, chunk))
  /\ UNCHANGED <<fallback, wakeAt>>

\* the server ends the response after a whole frame
StreamEnd(s) == ~Cut /\ SendEnd(s)

NextStream ==
  \/ \E p \in Payloads : CanSend(TurnSends) /\ HandleSend(p)
  \/ \E s \in SendIds : SendPersist(s)
  \/ \E s \in SendIds : SendTransmit(s)
  \/ \E s \in SendIds : RespOk(s)
  \/ \E s \in SendIds, chunk \in StreamChunks :
       CanRead(s, chunk) /\ StreamRead(s, chunk)
  \/ \E s \in SendIds : StreamEnd(s)
  \/ \E s \in SendIds : SendSaveReply(s)

SpecStream == InitWith(InitChats) /\ [][NextStream]_vars

---------------------------------------------------------------------------

(* SpecChat: one turn together with the /api/chat endpoint that answers    *)
(* it.  The upstream generation call either starts a stream or is rejected *)
(* before anything was written; call is the endpoint's answer in flight.   *)

Ok == 200
BadRequest == 400
Unauthorized == 401
TooManyRequests == 429
InternalError == 500

\* what chat.sendMessageStream does: resolves with a stream, or rejects
\* with an error whose message is txt (rate limiting, or anything else)
Upstreams ==
  {[k |-> "stream", txt |-> TxtEmpty]}
    \cup {[k |-> "rateLimited", txt |-> t] : t \in ErrorTexts \ {TxtUnrelated}}
    \cup {[k |-> "rejected", txt |-> TxtUnrelated]}

\* the handler of POST /api/chat up to its first write
chatEndpoint(hasKey, req, upstream) ==
  IF ~hasKey THEN [status |-> Unauthorized, body |-> TxtUnrelated]
  ELSE IF req.model = NoModel THEN [status |-> BadRequest, body |-> TxtUnrelated]
  ELSE IF upstream.k = "stream" THEN [status |-> Ok, body |-> TxtEmpty]
  ELSE [status |-> InternalError, body |-> upstream.txt]

\* the endpoint answers the request of send s
Serve(s, upstream) ==
  /\ call = None
  /\ sends[s].pc = "waiting"
  /\ sends[s].req # None
  /\ call' = Some([upstream |-> upstream, send |-> s,
                   answer |-> chatEndpoint(apiKey, Val(sends[s].req), upstream)])
  /\ UNCHANGED <<fallback, wakeAt, now, apiKey, dbVars, currentChatId, messages,
                 isLoading, streamingText, quotaVars, abortControllerRef, sends,
                 nextSend, eff>>

\* the client receives the answer: if (!res.ok), if (res.status === 429)
Receive(s) ==
  /\ call # None
  /\ Val(call).send = s
  /\ LET answer == Val(call).answer IN
       IF answer.status = Ok THEN RespOk(s)
       ELSE IF answer.status = TooManyRequests THEN Resp429(s, answer.body)
       ELSE RespFail(s, "http")

NextChat ==
  \/ \E i \in 1..Len(models) : PickModel(models[i])
  \/ \E p \in Payloads : CanSend(TurnSends) /\ HandleSend(p)
  \/ \E s \in SendIds : SendCreate(s)
  \/ \E s \in SendIds : SendPersist(s)
  \/ \E s \in SendIds : SendTransmit(s)
  \/ \E s \in SendIds, upstream \in Upstreams : Serve(s, upstream)
  \/ \E s \in SendIds : Receive(s)
  \/ \E s \in SendIds, chunk \in Chunks : CanRead(s, chunk) /\ SendRead(s, chunk)
  \/ \E s \in SendIds : SendEnd(s)
  \/ \E s \in SendIds : SendSaveReply(s)
  \/ \E s \in SendIds : SendSaveError(s)

SpecChat == Init /\ [][NextChat]_vars

---------------------------------------------------------------------------

(* SpecEdit: turns together with the handlers that resend a stored user    *)
(* message (retry of a reply, edit and resend) and delete a message.  call *)
(* is the resend that was made: the handler and what it gave sendMessage.  *)

\* deleteMessagesAfter: the message and every later message of the chat
deleteMessagesAfter(db, chatId, messageId) ==
  IF \E i \in DOMAIN db : db[i].chatId = chatId /\ db[i].id = messageId
  THEN SelectSeq(db, LAMBDA m : ~(m.chatId = chatId /\ m.id >= messageId))
  ELSE db

deleteMessage(db, id) == SelectSeq(db, LAMBDA m : m.id # id)

\* the texts an edit may leave in the text area
EditTexts == {<<"a">>, <<"b">>, <<" ">>}

\* sendMessage called by a handler of the current render, on record
Resend(handler, text, attachedImages) ==
  /\ call = None
  /\ Accepts(Closure, text, attachedImages, NoModel) => nextSend <= MaxSends
  /\ sendMessage(Closure, text, attachedImages, NoModel, 0, FALSE)
  /\ call' = Some([handler |-> handler, text |-> text,
                   attachedImages |-> attachedImages])

handleRetryMessage(messageId) ==
  /\ currentChatId # NoChat
  /\ LET currentMessages == getChatMessages(dbMessages, currentChatId)
         targets == {i \in DOMAIN currentMessages :
                       currentMessages[i].id = messageId}
     IN /\ targets # {}
        /\ LET targetIndex == CHOOSE i \in targets : TRUE
               users == {i \in 1..(targetIndex - 1) :
                           currentMessages[i].role = "user"}
           IN /\ users # {}
              /\ LET previousUser ==
                       currentMessages[CHOOSE i \in users :
                                         \A j \in users : j <= i]
                     db2 == deleteMessagesAfter(dbMessages, currentChatId,
                                                previousUser.id)
                 IN /\ dbMessages' = db2
                    /\ messages' = Ids(getChatMessages(db2, currentChatId))
                    /\ Resend("handleRetryMessage", previousUser.content,
                              previousUser.images)
  /\ UNCHANGED <<fallback, wakeAt, now, apiKey, chats, nextChatId, nextMsgId,
                 currentChatId, isLoading, streamingText, quotaVars,
                 abortControllerRef, eff>>

handleSaveEdit(editingMessageId, editingContent) ==
  /\ currentChatId # NoChat
  /\ \E i \in DOMAIN dbMessages : /\ dbMessages[i].id = editingMessageId
                                  /\ dbMessages[i].role = "user"
                                  /\ editingMessageId \in Range(messages)
  /\ LET db2 == deleteMessagesAfter(dbMessages, currentChatId, editingMessageId)
         updatedMessages == Ids(getChatMessages(db2, currentChatId))
     IN /\ dbMessages' = db2
        /\ messages' = SubSeq(updatedMessages, 1, Len(updatedMessages) - 1)
        /\ Resend("handleSaveEdit", editingContent, <<>>)
  /\ UNCHANGED <<fallback, wakeAt, now, apiKey, chats, nextChatId, nextMsgId,
                 currentChatId, isLoading, streamingText, quotaVars,
                 abortControllerRef, eff>>

handleDeleteMessage(messageId) ==
  /\ currentChatId # NoChat
  /\ messageId \in Range(messages)
  /\ \E i \in DOMAIN dbMessages : /\ dbMessages[i].id = messageId
                                  /\ dbMessages[i].role = "model"
  /\ dbMessages' = deleteMessage(dbMessages, messageId)
  /\ messages' = Ids(getChatMessages(dbMessages', currentChatId))
  /\ UNCHANGED <<restVars, now, apiKey, chats, nextChatId, nextMsgId, currentChatId,
                 isLoading, streamingText, quotaVars, abortControllerRef, eff,
                 sends, nextSend>>

MessageIds == 1..(2 * MaxSends)

\* in this specification a read delivers one text frame
TextChunks == {<<[k |-> "text", txt |-> TxtEmpty]>>}

NextEdit ==
  \/ \E p \in Payloads : CanSend(MaxSends) /\ HandleSend(p)
  \/ \E s \in SendIds : SendPersist(s)
  \/ \E s \in SendIds : SendTransmit(s)
  \/ \E s \in SendIds : RespFail(s, "http")
  \/ \E s \in SendIds : RespOk(s)
  \/ \E s \in SendIds, chunk \in TextChunks :
       CanRead(s, chunk) /\ SendRead(s, chunk)
  \/ \E s \in SendIds : SendEnd(s)
  \/ \E s \in SendIds : SendSaveReply(s)
  \/ \E s \in SendIds : SendSaveError(s)
  \/ \E id \in MessageIds : handleRetryMessage(id)
  \/ \E id \in MessageIds, text \in EditTexts : handleSaveEdit(id, text)
  \/ \E id \in MessageIds : handleDeleteMessage(id)

SpecEdit == InitWith(InitChats) /\ [][NextEdit]_vars

---------------------------------------------------------------------------

(* SpecParse: parseQuotaError alone.  Here an error text is a sequence of  *)
(* pieces: an occurrence of "limit: n", of "quotaValue":"n", of            *)
(* retryDelay ... ns, of PerDay, of PerMinute, or any other text; matching *)
(* it against the patterns gives the description parseQuotaError reads.    *)

MaxPieces == 3         \* pieces of an error text

Pieces ==
  {[k |-> kind, n |-> n] : kind \in {"limit", "quotaValue", "retryDelay"},
                           n \in 0..MaxQuota}
  \cup {[k |-> kind, n |-> 0] : kind \in {"PerDay", "PerMinute", "other"}}

PieceTexts == UNION {[1..n -> Pieces] : n \in 0..MaxPieces}

\* String.prototype.match without the g flag: the digits of the leftmost
\* match of the pattern, scanning from piece i
RECURSIVE match(_, _, _)
match(text, kind, i) ==
  IF i > Len(text) THEN None
  ELSE IF text[i].k = kind THEN Some(text[i].n)
  ELSE match(text, kind, i + 1)

\* String.prototype.includes
includes(text, kind) == \E i \in DOMAIN text : text[i].k = kind

matchPatterns(text) ==
  ErrText(match(text, "limit", 1), match(text, "quotaValue", 1),
          match(text, "retryDelay", 1), includes(text, "PerDay"),
          includes(text, "PerMinute"), text = <<>>)

\* parseQuotaError(errorText) called now; call is what it was given, when,
\* and what it returned
Parse(text) ==
  /\ call = None
  /\ call' = Some([text |-> text, at |-> now,
                   result |-> parseQuotaError(matchPatterns(text), now)])
  /\ UNCHANGED <<fallback, wakeAt, now, apiKey, dbVars, currentChatId, messages,
                 isLoading, streamingText, quotaVars, abortControllerRef, eff,
                 sends, nextSend>>

NextParse == call = None /\ \E text \in PieceTexts : Parse(text)

SpecParse == InitWith(0) /\ [][NextParse]_vars

---------------------------------------------------------------------------

(* Properties of the Send Controller *)

PastPersist == {"transmit", "waiting", "reading", "saveReply", "saveError", "done"}

\* the row addMessage wrote for the user message of send s is stored
Persisted(s) ==
  \E i \in DOMAIN dbMessages :
    /\ dbMessages[i].id = sends[s].userMsg
    /\ dbMessages[i].role = "user"
    /\ dbMessages[i].chatId = sends[s].chatId

\* the user deleted the chat of send s
ChatDeleted(s) == sends[s].chatId \notin Range(chats)

\* C1: every accepted send has persisted the user's message, with the
\* trimmed text and the images, before its request is transmitted: the
\* request's history already lists it; and the message is still stored
\* after the turn ended, whatever the outcome (failed on a network or http
\* error, quota-blocked, aborted), unless the user deleted the chat.
C1_UserMessageKept ==
  \A s \in SendIds :
    sends[s].pc \in PastPersist =>
      \/ ChatDeleted(s)
      \/ /\ Persisted(s)
         /\ sends[s].pc # "done" =>
              \E i \in DOMAIN dbMessages :
                /\ dbMessages[i].id = sends[s].userMsg
                /\ dbMessages[i].content = Trim(sends[s].text)
                /\ dbMessages[i].images = sends[s].images
         /\ sends[s].req # None =>
              \E k \in DOMAIN Val(sends[s].req).messages :
                Val(sends[s].req).messages[k] = sends[s].userMsg

\* a turn that ended in a network failure, its user message stored
C1_Witness ==
  \E s \in SendIds :
    /\ sends[s].pc = "done"
    /\ sends[s].out = "failed"
    /\ ~ChatDeleted(s)
    /\ Persisted(s)

\* C2: at most one send is in flight: no sendMessage invocation is accepted
\* while an accepted send has not reached its terminal outcome.
C2_SingleFlight == Cardinality({s \in SendIds : Active(s)}) <= 1

\* C3: the transcript of a chat holds the user message of a turn once, also
\* after a transient quota failure armed a retry and the retry fired.
C3_UserMessageOnce ==
  \A i, j \in DOMAIN dbMessages :
    ( /\ dbMessages[i].role = "user"
      /\ dbMessages[j].role = "user"
      /\ dbMessages[i].chatId = dbMessages[j].chatId
      /\ dbMessages[i].turn = dbMessages[j].turn ) => i = j

\* the assistant-role messages stored for a turn
ModelMessages(turn) ==
  {i \in DOMAIN dbMessages :
     dbMessages[i].role = "model" /\ dbMessages[i].turn = turn}

\* C4: the message handleStop persisted after N increments is the text
\* the read loop of the cancelled send had accumulated, no increment
\* missing and none added later, and it is the only assistant message
\* stored for that turn.
C4_StopPersistsOnce ==
  \A i \in DOMAIN dbMessages :
    dbMessages[i].kind = "partial" =>
      /\ \A s \in SendIds :
           (Active(s) /\ sends[s].origin = dbMessages[i].turn) =>
             dbMessages[i].content = sends[s].fullText
      /\ Cardinality(ModelMessages(dbMessages[i].turn)) = 1

\* C11: a send that failed on a network error or on a non-2xx response
\* other than 429 ends by persisting one assistant-role message with the
\* error text in the chat of the turn and clearing isLoading; if the failure
\* came before any text was read, it is the only assistant message of the
\* turn.
C11_FailurePersistsError ==
  [][ \A s \in SendIds :
        ( /\ sends[s].pc = "saveError"
          /\ sends[s].err \in {"network", "http"}
          /\ sends'[s].pc # "saveError" )
        => /\ sends'[s].pc = "done"
           /\ sends'[s].out = "failed"
           /\ isLoading' = FALSE
           /\ Len(dbMessages') = Len(dbMessages) + 1
           /\ SubSeq(dbMessages', 1, Len(dbMessages)) = dbMessages
           /\ LET row == dbMessages'[Len(dbMessages')] IN
                /\ row.role = "model"
                /\ row.chatId = sends[s].chatId
                /\ row.content = <<"Error", sends[s].err>>
           /\ sends[s].fullText = <<>> =>
                Cardinality({i \in DOMAIN dbMessages' :
                               /\ dbMessages'[i].role = "model"
                               /\ dbMessages'[i].turn = sends[s].origin}) = 1 ]_vars

\* a turn ended by a non-2xx response: its error message is the one
\* assistant message of the chat and isLoading is cleared
C11_Witness ==
  \E s \in SendIds :
    /\ sends[s].pc = "done"
    /\ sends[s].out = "failed"
    /\ ~isLoading
    /\ \E i \in DOMAIN dbMessages :
         /\ dbMessages[i].chatId = sends[s].chatId
         /\ dbMessages[i].content = <<"Error", "http">>
    /\ Cardinality(ModelMessages(sends[s].origin)) = 1

\* C27: a transmitted request names the model of the send (the override,
\* else the model selected when the send was invoked) and carries the new
\* turn once: newMessage is this turn's text and images, and messages, the
\* transcript before the turn, does not contain this turn's user message
C27_TurnCarriedOnce ==
  \A s \in SendIds :
    sends[s].req # None =>
      LET req == Val(sends[s].req) IN
        /\ req.model = sends[s].model
        /\ req.newMessage = [text |-> Trim(sends[s].text),
                             images |-> sends[s].images]
        /\ sends[s].userMsg \notin Range(req.messages)

\* send s receives a response with status 429 in this step
Answered429(s) ==
  /\ sends[s].pc = "waiting"
  /\ sends'[s].out = "quota" \/ sends'[s].err = "TypeError"

\* send s, whose response had status 429, takes a later step
After429(s) == sends[s].err = "TypeError" /\ sends'[s].pc # sends[s].pc

\* C12: a turn whose response has status 429 persists no assistant message:
\* neither the step that handles the response nor any later step of that
\* send adds a message to the store or to the displayed chat
C12_QuotaPersistsNothing ==
  [][ \A s \in SendIds :
        (Answered429(s) \/ After429(s))
        => /\ dbMessages' = dbMessages
           /\ messages' = messages
           /\ chats' = chats ]_vars

---------------------------------------------------------------------------
\* the call is one the first test of sendMessage turns away for its text
\* and images or for the missing API key
Turned(c) ==
  \/ /\ \A i \in DOMAIN c.text : c.text[i] = " "
     /\ c.attachedImages = <<>>
  \/ ~c.apiKey

\* C15: sendMessage called with whitespace-only text and no images, or
\* without an API key, is a no-op: ever after, no chat is created, no
\* message persisted, no request made, and the banner, the in-flight flag,
\* the retry intent and the Quota Store are as they were
C15_RejectedSendIsNoOp ==
  (call # None /\ Turned(Val(call))) =>
     /\ Observed = Val(call).before
     /\ \A s \in SendIds : sends[s].pc = "free" /\ sends[s].req = None

C15_Witness ==
  /\ call # None
  /\ Val(call).text = <<" ", " ">>
  /\ Val(call).attachedImages = <<>>
  /\ Val(call).apiKey
  /\ Val(call).modelOverride = NoModel
  /\ selectedModel # NoModel
  /\ \A s \in SendIds : sends[s].pc = "free"

\* C35: the partial text persisted on cancellation is stored in the chat of
\* the cancelled turn, whichever chat is selected when Stop is pressed
C35_PartialInOwnChat ==
  \A i \in DOMAIN dbMessages :
    dbMessages[i].kind = "partial" =>
      dbMessages[i].chatId = sends[dbMessages[i].turn].chatId

\* no send is between its acceptance and its finally block
Idle == ~isLoading /\ \A s \in SendIds : ~Active(s)

\* every chat ever created is still stored
NoChatDeleted == Len(chats) = nextChatId - 1

\* C36: whenever no operation is in progress (after sends, stops and chat
\* selections, no chat having been deleted), the in-memory transcript is
\* the persisted transcript of the selected chat, in order
C36_TranscriptInSync ==
  (Idle /\ NoChatDeleted) =>
    messages = IF currentChatId = NoChat THEN <<>>
               ELSE Ids(getChatMessages(dbMessages, currentChatId))

\* C38: every persisted message belongs to a stored chat: once a chat was
\* deleted no message with its chatId is in storage, also when a send for
\* that chat was in flight when it was deleted
C38_NoOrphanMessages ==
  \A i \in DOMAIN dbMessages : dbMessages[i].chatId \in Range(chats)

\* C39: a send that finishes (its finally block runs) leaves the in-flight
\* flag and the abort handle alone when the handle belongs to a later send
C39_FinallySparesLaterSend ==
  [][\A s \in SendIds :
       (/\ sends[s].pc # "done" /\ sends'[s].pc = "done"
        /\ abortControllerRef \notin {0, s}) =>
         /\ abortControllerRef' = abortControllerRef
         /\ isLoading' = isLoading]_vars

\* C34: the reply text of a turn is stored at most once (by handleStop or
\* by the send that completes), under every interleaving of handleStop
\* with the completion of the send
C34_ReplyStoredOnce ==
  \A s \in SendIds :
    sends[s].pc # "free" =>
      Cardinality({i \in ModelMessages(sends[s].origin) :
                     dbMessages[i].kind \in {"partial", "reply"}}) <= 1

---------------------------------------------------------------------------

(* Properties of handleQuotaError *)

\* this step is a call of handleQuotaError
Handled == call = None /\ call' # None

\* the step leaves the retry intent as it was
NotArmed == retryAt' = retryAt /\ autoRetryMessage' = autoRetryMessage

\* the step shows banner, or switches to the fallback model if there is one
FellBack(banner, modelValue) ==
  LET fb == selectFallbackModel(models, modelValue, quotaStore, now) IN
  IF fb.kind = "found"
  THEN errorBanner' = "switched" /\ selectedModel' = fb.model
  ELSE errorBanner' = banner /\ selectedModel' = selectedModel

\* C13: the branch handleQuotaError takes is the first that matches in the
\* order limit = 0 (disabled), remaining = 0 (exhausted), retryAfter present
\* (transient), otherwise generic, and only that branch acts: a text with
\* limit > 0, remaining = 0 and a retry delay shows the exhausted banner or
\* switches, and arms no retry
C13_BranchPrecedence ==
  [][ Handled =>
        LET c == Val(call')
            q == parseQuotaError(c.errorText, now)
        IN IF q.limit = Some(0)
           THEN FellBack("unavailable", c.modelValue) /\ NotArmed
           ELSE IF q.remaining = Some(0)
           THEN FellBack("exhausted", c.modelValue) /\ NotArmed
           ELSE IF q.retryAfter # None
           THEN /\ errorBanner' = "countdown"
                /\ retryAt' = q.retryAfter
                /\ selectedModel' = selectedModel
           ELSE /\ errorBanner' \in {"generic", errorBanner}
                /\ selectedModel' = selectedModel
                /\ NotArmed ]_vars

C13_Witness ==
  /\ call # None
  /\ Val(call).errorText.limit = Some(2)
  /\ Val(call).errorText.quotaValue = Some(2)
  /\ Val(call).errorText.retryDelay = Some(1)
  /\ errorBanner = "exhausted"
  /\ retryAt = None
  /\ autoRetryMessage = None

\* the parsed text is none of the disabled, exhausted and transient cases
Unrecognized(q) ==
  /\ q.limit # Some(0)
  /\ q.remaining # Some(0)
  /\ q.retryAfter = None

\* C14: a 429 text that is none of the disabled, exhausted and transient
\* cases, the empty text included, ends with the generic banner shown, the
\* selected model kept and no retry intent armed
C14_GenericBanner ==
  [][ (Handled /\ Unrecognized(parseQuotaError(Val(call').errorText, now)))
        => /\ errorBanner' = "generic"
           /\ selectedModel' = selectedModel
           /\ NotArmed ]_vars

\* the parsed text reports more used than a non-zero limit allows
OverUsed(q) ==
  /\ q.limit \notin {None, Some(0)}
  /\ q.remaining # None
  /\ Val(q.remaining) < 0

\* C23: a quota failure whose parsed remaining is negative is handled like
\* remaining = 0 (the exhausted banner or the fallback switch, no retry
\* armed), and selectFallbackModel does not select a model whose stored
\* remaining is negative
C23_NegativeIsExhausted ==
  [][ (Handled /\ OverUsed(parseQuotaError(Val(call').errorText, now)))
        => /\ FellBack("exhausted", Val(call').modelValue)
           /\ NotArmed
           /\ selectFallbackModel(<<Val(call').modelValue>>, NoModel,
                                  quotaStore', now).kind # "found" ]_vars

---------------------------------------------------------------------------
(* Properties of the Quota Store *)

\* the start of the UTC day that follows the day of t
NextMidnight(t) ==
  CHOOSE d \in {k * DayMs : k \in 1..(MaxTime \div DayMs + 2)} :
    d > t /\ d - DayMs <= t

\* C16: normalizeQuota of a record whose resetAt is set and reached returns
\* used = 0, remaining = limit (null when limit is null), the same limit, and
\* resetAt = the next UTC midnight, or null when limit is null; any other
\* record is returned unchanged
C16_Rollover ==
  call # None =>
    LET quota == Val(call).quota
        result == Val(call).result
        t == Val(call).at
    IN IF quota.resetAt # None /\ t >= Val(quota.resetAt)
       THEN /\ result.used = Some(0)
            /\ result.remaining = quota.limit
            /\ result.limit = quota.limit
            /\ result.resetAt = IF quota.limit = None THEN None
                                ELSE Some(NextMidnight(t))
       ELSE result = quota

C16_Witness ==
  /\ call # None
  /\ Val(call).quota.limit = Some(2)
  /\ Val(call).quota.used = Some(2)
  /\ Val(call).quota.remaining = Some(0)
  /\ Val(call).quota.resetAt = Some(DayMs)
  /\ Val(call).at > DayMs
  /\ Val(call).result.used = Some(0)
  /\ Val(call).result.remaining = Some(2)
  /\ Val(call).result.resetAt = Some(2 * DayMs)

\* C17: every stored record with a non-null remaining has remaining >= 0,
\* and remaining <= limit when limit is non-null
C17_RemainingInRange ==
  \A m \in ModelIds :
    quotaStore[m] # None /\ Val(quotaStore[m]).remaining # None =>
      LET quota == Val(quotaStore[m]) IN
        /\ Val(quota.remaining) >= 0
        /\ quota.limit # None => Val(quota.remaining) <= Val(quota.limit)

\* model m is recorded as disabled for the tier
StoredDisabled(m) == quotaStore[m] # None /\ Val(quotaStore[m]).limit = Some(0)

\* whatever the model list and the model being left, selectFallbackModel
\* over the store does not select m
Excluded(m) ==
  \A ms \in ModelLists, current \in (ModelIds \cup {NoModel}) \ {m} :
    selectFallbackModel(ms, current, quotaStore, now).model # m

\* this step is a quota failure of m whose text reports a non-zero limit
ReportsLimit(m) ==
  /\ call' # call
  /\ Val(call').modelValue = m
  /\ Val(call').errorText.limit \notin {None, Some(0)}

\* C18: a model stored with limit = 0 is excluded from fallback selection,
\* and every step (a rollover, the midnight wake, a reload, a failure of
\* another model or one that reports no limit) leaves it stored with
\* limit = 0 and excluded, except a quota failure of that model that
\* reports a non-zero limit
C18_DisabledPersists ==
  [][ \A m \in ModelIds :
        StoredDisabled(m) =>
          /\ Excluded(m)
          /\ ReportsLimit(m) \/ (StoredDisabled(m)' /\ Excluded(m)') ]_vars

C18_Witness ==
  \E m \in ModelIds :
    /\ StoredDisabled(m)
    /\ now >= DayMs
    /\ wakeAt = None
    /\ Val(quotaStore[m]).used = Some(0)
    /\ Val(quotaStore[m]).resetAt = Some(2 * DayMs)
    /\ Excluded(m)

\* the last quota failure left its model exhausted but not disabled
LastExhausted ==
  /\ call # None
  /\ Val(call).errorText.limit \notin {None, Some(0)}
  /\ Val(call).errorText.quotaValue = Val(call).errorText.limit

\* the midnight timer is due and has not fired yet
WakePending == wakeAt # None /\ now >= Val(wakeAt)

\* C19: a model left exhausted (limit > 0, remaining = 0) by a quota failure
\* of period day, minute or unknown is eligible for fallback selection once
\* the UTC midnight after the failure has passed, whether the app stayed
\* open (and its midnight timer has fired) or was reloaded
C19_ExhaustedRecovers ==
  (LastExhausted /\ now >= NextMidnight(Val(call).at) /\ ~WakePending) =>
     selectFallbackModel(<<Val(call).modelValue>>, NoModel, quotaStore,
                         now).kind = "found"

---------------------------------------------------------------------------
\* the entries of a stored mapping, each in normalized form
NormalizedEntries(blob, t) ==
  [m \in ModelIds |->
     IF blob.entries[m] = None \/ m \in blob.nulls THEN None
     ELSE Some(normalizeQuota(Val(blob.entries[m]), t))]

\* C21 as stated: loadQuotaStore returns the empty store for a missing or
\* unparsable blob and one without a modelQuotas mapping, and otherwise
\* every stored entry in normalized form
C21_LoadsEveryEntry ==
  call # None =>
    LET blob == Val(call).blob IN
    Val(call).result = IF blob.k # "mapping" THEN EmptyStore
                       ELSE NormalizedEntries(blob, Val(call).at)

\* C21: loadQuotaStore always returns a store: the empty store for a
\* missing or unparsable blob, one without a modelQuotas mapping, and a
\* mapping with a null entry; otherwise every stored entry in normalized form
C21_LoadFailsOpen ==
  call # None =>
    LET blob == Val(call).blob
        result == Val(call).result
    IN /\ DOMAIN result = ModelIds
       /\ result = IF blob.k # "mapping" \/ blob.nulls # {} THEN EmptyStore
                   ELSE NormalizedEntries(blob, Val(call).at)

C21_Witness ==
  /\ call # None
  /\ Val(call).blob.k = "mapping"
  /\ Val(call).blob.nulls = {}
  /\ Val(call).at >= DayMs
  /\ \E m \in ModelIds :
       /\ Val(call).blob.entries[m] # None
       /\ Val(Val(call).blob.entries[m]).resetAt = Some(DayMs)
       /\ Val(call).result[m] # Val(call).blob.entries[m]
       /\ Val(Val(call).result[m]).used = Some(0)

\* the fields of a record the claims compare
QuotaFields(q) ==
  [limit |-> q.limit, used |-> q.used, remaining |-> q.remaining,
   resetAt |-> q.resetAt]

\* the call applied normalizeQuota twice
Twice == call # None /\ "again" \in DOMAIN Val(call)

\* C26: at a fixed clock value, normalizeQuota applied twice gives the same
\* limit, used, remaining and resetAt as applied once, and a record whose
\* resetAt is null or has not elapsed is returned identical by both calls
C26_NormalizeIdempotent ==
  Twice =>
    LET c == Val(call) IN
    /\ QuotaFields(c.again) = QuotaFields(c.result)
    /\ (c.quota.resetAt = None \/ c.at < Val(c.quota.resetAt)) =>
         c.result = c.quota /\ c.again = c.quota

C26_Witness ==
  /\ Twice
  /\ Val(call).quota.resetAt = Some(DayMs)
  /\ Val(call).quota.limit = Some(2)
  /\ Val(call).quota.used = Some(1)
  /\ Val(call).at >= DayMs
  /\ Val(call).result.used = Some(0)
  /\ Val(call).result.resetAt = Some(2 * DayMs)
  /\ QuotaFields(Val(call).again) = QuotaFields(Val(call).result)

\* the fields of partial laid over those of record
Merged(record, partial) ==
  [limit |-> IF partial.limit # None THEN partial.limit ELSE record.limit,
   used |-> IF partial.used # None THEN partial.used ELSE record.used,
   remaining |-> IF partial.remaining # None THEN partial.remaining
                 ELSE record.remaining,
   resetAt |-> IF partial.resetAt # None THEN partial.resetAt
               ELSE record.resetAt,
   lastUpdated |-> record.lastUpdated]

\* C24: the record updateQuota stores is the existing record (or a blank
\* one) normalized, then merged with the update, then normalized, with
\* lastUpdated = now
C24_UpdateReadsNormalized ==
  call # None =>
    LET c == Val(call)
        existing == IF c.existing = None
                    THEN [limit |-> None, used |-> None, remaining |-> None,
                          resetAt |-> None, lastUpdated |-> c.at]
                    ELSE Val(c.existing)
        expected == normalizeQuota(
                      Merged(normalizeQuota(existing, c.at), c.update), c.at)
    IN /\ c.result # None
       /\ QuotaFields(Val(c.result)) = QuotaFields(expected)
       /\ Val(c.result).lastUpdated = c.at

\* C32: the step in which the midnight timer fires replaces every stored
\* entry by its normalized value (elapsed entries rolled over, entries with
\* resetAt null or in the future unchanged) and removes none
C32_WakeNormalizes ==
  [][(wakeAt # None /\ wakeAt' = None) =>
       \A m \in ModelIds :
         quotaStore'[m] =
           IF quotaStore[m] = None THEN None
           ELSE Some(normalizeQuota(Val(quotaStore[m]), now))]_vars

\* ... no entry is removed or added
C32_WakeKeepsEntries ==
  [][(wakeAt # None /\ wakeAt' = None) =>
       \A m \in ModelIds : (quotaStore'[m] = None) <=> (quotaStore[m] = None)]_vars

---------------------------------------------------------------------------
(* Properties of the Quota Error Parser *)

\* the positions of the pieces of text that match the pattern kind
Occurrences(text, kind) == {i \in DOMAIN text : text[i].k = kind}

\* the number of the leftmost such piece, or null when there is none
Extracted(text, kind) ==
  LET I == Occurrences(text, kind) IN
  IF I = {} THEN None
  ELSE Some(text[CHOOSE i \in I : \A j \in I : i <= j].n)

\* C20: parseQuotaError returns a result for every text, with limit and
\* used the extracted numbers or null when the pattern is absent, remaining
\* = limit - used iff both were extracted and else null, period 'day' if the
\* text contains PerDay, else 'minute' if it contains PerMinute, else
\* 'unknown', and available false iff the extracted limit is 0; an empty or
\* unrelated text gives the all-unknown result with available true
C20_ParseRules ==
  call # None =>
    LET text == Val(call).text
        result == Val(call).result
        limit == Extracted(text, "limit")
        used == Extracted(text, "quotaValue")
    IN /\ DOMAIN result = {"limit", "used", "remaining", "retryAfter",
                           "period", "available"}
       /\ result.limit = limit
       /\ result.used = used
       /\ result.remaining = IF limit # None /\ used # None
                             THEN Some(Val(limit) - Val(used)) ELSE None
       /\ result.period = IF Occurrences(text, "PerDay") # {} THEN "day"
                          ELSE IF Occurrences(text, "PerMinute") # {}
                               THEN "minute" ELSE "unknown"
       /\ result.available = ~(limit # None /\ Val(limit) = 0)
       /\ (\A i \in DOMAIN text : text[i].k = "other") =>
            result = [limit |-> None, used |-> None, remaining |-> None,
                      retryAfter |-> None, period |-> "unknown",
                      available |-> TRUE]

C20_Witness ==
  /\ call # None
  /\ Len(Val(call).text) = MaxPieces
  /\ Val(call).text[1] = [k |-> "quotaValue", n |-> 2]
  /\ Val(call).text[2] = [k |-> "limit", n |-> 0]
  /\ Val(call).text[3] = [k |-> "PerMinute", n |-> 0]
  /\ Val(call).result.remaining = Some(0 - 2)
  /\ Val(call).result.period = "minute"
  /\ ~Val(call).result.available

\* C25: parseQuotaError yields retryAfter = now + N * 1000 for a text with
\* a retryDelay pattern of N seconds, N = 0 included, and null only for a
\* text without the pattern
C25_RetryAfter ==
  call # None =>
    LET delay == Extracted(Val(call).text, "retryDelay") IN
    Val(call).result.retryAfter =
      IF delay = None THEN None
      ELSE Some(Val(call).at + Val(delay) * MsPerSecond)

---------------------------------------------------------------------------
(* Properties of the Model Selector *)

\* the stored quota of model m rules it out: limit = 0, or a non-null
\* remaining <= 0; a model without a record is not ruled out
Disqualified(store, m) ==
  /\ store[m] # None
  /\ \/ Val(store[m]).limit = Some(0)
     \/ /\ Val(store[m]).remaining # None
        /\ Val(Val(store[m]).remaining) <= 0

\* the first model of ms, from index i, that is neither current nor ruled
\* out; NoModel if there is none
RECURSIVE FirstEligible(_, _, _, _)
FirstEligible(ms, i, current, store) ==
  IF i > Len(ms) THEN NoModel
  ELSE IF ms[i] # current /\ ~Disqualified(store, ms[i]) THEN ms[i]
  ELSE FirstEligible(ms, i + 1, current, store)

\* C5: selectFallbackModel selects the first listed model that is not the
\* excluded one and whose stored quota has neither limit = 0 nor a non-null
\* remaining <= 0, a model without a record being eligible, and selects
\* nothing if no model survives.
C5_SelectsFirstEligible ==
  fallback # None =>
    LET f == Val(fallback)
        m == FirstEligible(f.models, 1, f.current, quotaStore)
    IN f.result = IF m = NoModel THEN [kind |-> "none", model |-> NoModel]
                  ELSE [kind |-> "found", model |-> m]

\* C6: when the handling of a 429 records limit = 0 for a model that had no
\* record, the banner is the 'unavailable' one and the selected model is the
\* first other listed model without disqualifying stored quota.
C6_DisabledSwitches ==
  [][ \A m \in ModelIds :
        ( /\ quotaStore[m] = None
          /\ quotaStore'[m] # None
          /\ Val(quotaStore'[m]).limit = Some(0) )
        => /\ errorBanner' = "unavailable"
           /\ selectedModel' = FirstEligible(models, 1, m, quotaStore') ]_vars

---------------------------------------------------------------------------
(* Properties of the Retry Scheduler *)

\* the step in which send s ends quota-blocked on a transient 429
TransientBlocked(s) ==
  /\ sends[s].pc = "waiting"
  /\ sends'[s].pc = "done"
  /\ sends'[s].out = "quota"
  /\ errorBanner' = "countdown"

\* the intent that the transient 429 of send s is to arm, at time t
IntentOf(s) ==
  [chatId |-> sends[s].chatId, text |-> Trim(sends[s].text),
   images |-> sends[s].images, model |-> sends[s].model,
   origin |-> sends[s].origin]

\* C7: after a 429 that parses to the transient case was handled there is
\* a live retry intent with the text, images and model of the failed send,
\* firing at retryAfter, and the selected model is unchanged; also for the
\* first message of a chat the send created.
C7_TransientArms ==
  [][ \A s \in SendIds :
        TransientBlocked(s) =>
          /\ retryAt' = parseQuotaError(TxtTransient, now).retryAfter
          /\ autoRetryMessage' # None
          /\ Val(autoRetryMessage').text = IntentOf(s).text
          /\ Val(autoRetryMessage').images = IntentOf(s).images
          /\ Val(autoRetryMessage').model = IntentOf(s).model
          /\ selectedModel' = selectedModel ]_vars

\* C8: arming while an intent is armed leaves one intent whose payload
\* (text, images, model, chat) and firing time are both those of the later
\* arming.
C8_LastArmingWins ==
  [][ \A s \in SendIds :
        (TransientBlocked(s) /\ autoRetryMessage # None) =>
          /\ retryAt' = parseQuotaError(TxtTransient, now).retryAfter
          /\ autoRetryMessage' = Some(IntentOf(s)) ]_vars

\* the step clears the armed intent: the poll tick after the deadline
IntentCleared == autoRetryMessage # None /\ autoRetryMessage' = None

\* the step accepts a send made by the retry interval
RetrySendStarted == nextSend' = nextSend + 1 /\ sends'[nextSend].retry

\* the step ends a retried send in failure
RetriedSendFails ==
  \E s \in SendIds :
    /\ sends[s].retry
    /\ Active(s)
    /\ \/ sends'[s].pc = "saveError" /\ sends[s].pc # "saveError"
       \/ sends'[s].pc = "done" /\ sends'[s].out \in {"failed", "aborted"}

\* C9: the intent is cleared only by a poll tick at or after its firing
\* time; a tick that fires with the intent's chat active clears retryAt and
\* the payload in the step that calls sendMessage, calls it once, and a send
\* it starts carries the intent's text, images and model whatever model is
\* selected; a retried send starts in no other step; and the failure of a
\* retried send leaves the cleared intent cleared.
C9_FiresOnceAfterDeadline ==
  [][ /\ IntentCleared =>
           /\ retryAt # None /\ now >= Val(retryAt)
           /\ retryAt' = None
           /\ Val(autoRetryMessage).chatId = currentChatId =>
                \/ /\ RetrySendStarted
                   /\ sends'[nextSend].text = Val(autoRetryMessage).text
                   /\ sends'[nextSend].images = Val(autoRetryMessage).images
                   /\ sends'[nextSend].model = Val(autoRetryMessage).model
                   /\ sends'[nextSend].chatId = Val(autoRetryMessage).chatId
                   /\ \A s \in SendIds \ {nextSend} : sends'[s] = sends[s]
                \/ /\ ~Accepts(Val(eff), Val(autoRetryMessage).text,
                               Val(autoRetryMessage).images,
                               Val(autoRetryMessage).model)
                   /\ UNCHANGED <<sends, nextSend>>
      /\ RetrySendStarted => IntentCleared
      /\ RetriedSendFails => UNCHANGED <<retryAt, autoRetryMessage>> ]_vars

\* a retried send in flight on the intent's model while the user has
\* selected another one, the intent cleared
C9_Witness ==
  \E s \in SendIds :
    /\ sends[s].retry
    /\ Active(s)
    /\ sends[s].model # selectedModel
    /\ retryAt = None
    /\ autoRetryMessage = None

\* the deadline of the armed intent has passed and another chat is active
DueElsewhere ==
  /\ autoRetryMessage # None
  /\ retryAt # None
  /\ now >= Val(retryAt)
  /\ Val(autoRetryMessage).chatId # currentChatId

\* C10: when the deadline of an intent has elapsed with another chat
\* active, no step starts a retried send, and the step that clears the
\* intent clears both of its parts, accepts no send and persists nothing.
C10_DiscardedElsewhere ==
  [][ DueElsewhere =>
        /\ ~RetrySendStarted
        /\ IntentCleared =>
             /\ retryAt' = None
             /\ UNCHANGED <<sends, nextSend, dbMessages, nextMsgId, chats>> ]_vars

\* the only send ended quota-blocked in its chat, the user selected
\* another chat, the deadline passed and the intent is gone: nothing was
\* sent for it
C10_Witness ==
  /\ nextSend = 2
  /\ sends[1].pc = "done"
  /\ sends[1].out = "quota"
  /\ sends[1].chatId \in Range(chats)
  /\ currentChatId \in Range(chats) \ {sends[1].chatId}
  /\ retryAt = None
  /\ autoRetryMessage = None
  /\ Len(dbMessages) = 1

\* a retry intent is armed: both of its parts are set
Armed == Truthy(retryAt) /\ autoRetryMessage # None

\* C22: while a retry intent is armed no send is in flight in the intent's
\* chat: the send that armed it has ended, and no other send is running
C22_ArmedMeansSettled ==
  Armed => \A s \in SendIds :
             Active(s) => sends[s].chatId # Val(autoRetryMessage).chatId

---------------------------------------------------------------------------
\* C33: the retry intent is one unit: the firing time retryAt is set if and
\* only if the payload autoRetryMessage is set
C33_IntentIsOneUnit == (retryAt # None) <=> (autoRetryMessage # None)

(* Properties of the response stream (SpecStream).                         *)

\* all frames delivered so far, in order
RECURSIVE Flatten(_)
Flatten(chunks) ==
  IF chunks = <<>> THEN <<>> ELSE Head(chunks) \o Flatten(Tail(chunks))

\* an error frame that is not a quota signal was delivered
ErrorFrameDelivered == \E i \in DOMAIN Flatten(Delivered) :
                         Flatten(Delivered)[i].k = "err"

\* C28: when the stream delivered an error frame that is not a quota
\* signal, the turn ends failed and an assistant-role error message is
\* persisted in the chat of that turn
C28_ErrorFrameFailsTurn ==
  \A s \in SendIds :
    (sends[s].pc = "done" /\ ErrorFrameDelivered) =>
      /\ sends[s].out = "failed"
      /\ \E i \in DOMAIN dbMessages :
           /\ dbMessages[i].chatId = sends[s].chatId
           /\ dbMessages[i].role = "model"
           /\ dbMessages[i].kind = "error"
           /\ dbMessages[i].turn = sends[s].origin

\* the increments of the text frames the server sent, whole or divided
\* between two reads, from position i up to the first [DONE] frame
RECURSIVE SentText(_, _, _, _)
SentText(frames, i, n, s) ==
  IF i > Len(frames) \/ frames[i].k = "done" THEN <<>>
  ELSE IF frames[i].k \in {"text", "head"}
       THEN <<Increment(s, n + 1)>> \o SentText(frames, i + 1, n + 1, s)
  ELSE SentText(frames, i + 1, n, s)

\* no text was sent after a [DONE] frame
NothingAfterDone ==
  \A i, j \in DOMAIN Flatten(Delivered) :
    (i < j /\ Flatten(Delivered)[i].k = "done") =>
      Flatten(Delivered)[j].k \notin {"text", "head", "tail"}

\* the text of the reply persisted for the turn of send s, empty if none
ReplyText(s) ==
  LET replies == {i \in DOMAIN dbMessages :
                    /\ dbMessages[i].kind = "reply"
                    /\ dbMessages[i].turn = sends[s].origin}
  IN IF replies = {} THEN <<>>
     ELSE dbMessages[CHOOSE i \in replies : TRUE].content

\* C29: when a stream that sent nothing after [DONE] has ended and the
\* turn is settled, the persisted reply is the concatenation, in order and
\* once each, of the increments of all text frames sent, however the bytes
\* were divided into chunks and whatever malformed frames came between
C29_ReplyIsSentText ==
  \A s \in SendIds :
    (sends[s].pc = "done" /\ sends[s].out = "settled" /\ NothingAfterDone) =>
      ReplyText(s) = SentText(Flatten(Delivered), 1, 0, s)

\* the same for streams whose frames all arrived whole
C29_WholeFrames ==
  \A s \in SendIds :
    (/\ sends[s].pc = "done" /\ sends[s].out = "settled" /\ NothingAfterDone
     /\ \A i \in DOMAIN Flatten(Delivered) :
          Flatten(Delivered)[i].k \notin {"head", "tail"}) =>
      ReplyText(s) = SentText(Flatten(Delivered), 1, 0, s)

---------------------------------------------------------------------------
(* Properties of the chat endpoint (SpecChat).                             *)

\* C31: when the upstream call was rejected for rate limiting before any
\* frame was written, the endpoint answers 429 with the upstream error
\* text, and the turn ends the way the client's quota branch ends it
C31_RateLimitAnswers429 ==
  (call # None /\ Val(call).upstream.k = "rateLimited") =>
    /\ Val(call).answer = [status |-> TooManyRequests,
                           body |-> Val(call).upstream.txt]
    /\ \A s \in SendIds : sends[s].pc = "done" => sends[s].out = "quota"

---------------------------------------------------------------------------
(* Properties of the resend handlers (SpecEdit).                           *)

\* this step is a run of handleRetryMessage or handleSaveEdit up to its
\* call of sendMessage
Resent == call = None /\ call' # None

\* C37: a resend that sendMessage rejects because a send is in flight or no
\* model is selected leaves the persisted messages unchanged
C37_RejectedResendKeepsMessages ==
  [][(Resent /\ (isLoading \/ selectedModel = NoModel)) =>
       dbMessages' = dbMessages]_vars

====
